---- MODULE Spec2Model ----
(***************************************************************************)
(* A model of the spreadsheet core of src/spreadsheet: the sparse cell     *)
(* store (model.py), the formula tokenizer, parser and evaluator           *)
(* (formula.py), the dependency graph and the calculation engine           *)
(* (engine.py), the commands, the macro and the manager of the command    *)
(* log (undo.py) and the edit path of the UI (ui.py), together with the    *)
(* DependencyTracker of src/app1/ui.py.                                    *)
(*                                                                         *)
(* Text is a sequence of one-character strings, so that the tokenizer and  *)
(* the digit tests of the code are computed and not assumed.  Numbers are  *)
(* integers: no text of the model contains '.', and the only division the  *)
(* texts contain is a division by the literal 0.                           *)
(***************************************************************************)
EXTENDS Integers, Sequences, FiniteSets, TLC

VARIABLES sheet, dependency_graph, dirty_cells, calculating, pass_order,
          undo_stack, redo_stack, tracker, held, last, trail, steps, window

vars == <<sheet, dependency_graph, dirty_cells, calculating, pass_order,
          undo_stack, redo_stack, tracker, held, last, trail, steps, window>>

\* the number of operations a behaviour performs
MaxSteps == 4

(***************************************************************************)
(* Characters                                                              *)
(***************************************************************************)
Digits == {"0", "1", "2", "3", "4", "5", "6", "7", "8", "9"}

DigitSeq == <<"0", "1", "2", "3", "4", "5", "6", "7", "8", "9">>

UpperSeq == <<"A", "B", "C", "D", "E", "F", "G", "H", "I", "J", "K", "L", "M",
              "N", "O", "P", "Q", "R", "S", "T", "U", "V", "W", "X", "Y", "Z">>

LowerSeq == <<"a", "b", "c", "d", "e", "f", "g", "h", "i", "j", "k", "l", "m",
              "n", "o", "p", "q", "r", "s", "t", "u", "v", "w", "x", "y", "z">>

UpperLetters == {UpperSeq[i] : i \in 1..26}

LowerLetters == {LowerSeq[i] : i \in 1..26}

IsDigit(ch) == ch \in Digits

IsAlpha(ch) == ch \in UpperLetters \cup LowerLetters

IsAlnum(ch) == IsDigit(ch) \/ IsAlpha(ch)

IsSpace(ch) == ch = " "

\* str.upper() on one character
UpperChar(ch) ==
    IF ch \in LowerLetters
    THEN UpperSeq[CHOOSE i \in 1..26 : LowerSeq[i] = ch]
    ELSE ch

Upper(s) == [i \in 1..Len(s) |-> UpperChar(s[i])]

\* s[m..n] in 1-based inclusive positions, empty when the slice is empty
Slice(s, m, n) == IF m > n \/ m > Len(s) THEN <<>> ELSE SubSeq(s, m, n)

\* s.replace(ch, '')
RECURSIVE Remove(_, _)
Remove(s, ch) ==
    IF s = <<>> THEN <<>>
    ELSE IF Head(s) = ch THEN Remove(Tail(s), ch)
    ELSE <<Head(s)>> \o Remove(Tail(s), ch)

\* str.isdigit(): non-empty and all digits
AllDigits(s) == Len(s) > 0 /\ \A i \in 1..Len(s) : IsDigit(s[i])

\* the test raw.replace('.', '').replace('-', '').isdigit() of engine.py and formula.py
LooksNumeric(s) == AllDigits(Remove(Remove(s, "."), "-"))

DigitValue(ch) == (CHOOSE i \in 1..10 : DigitSeq[i] = ch) - 1

RECURSIVE DigitsToInt(_)
DigitsToInt(s) ==
    IF s = <<>> THEN 0
    ELSE 10 * DigitsToInt(SubSeq(s, 1, Len(s) - 1)) + DigitValue(s[Len(s)])

\* float(s) on the texts of the model: an optional sign and digits; anything
\* else built from the model's characters raises ValueError
FloatOk(s) ==
    \/ AllDigits(s)
    \/ Len(s) > 1 /\ s[1] \in {"-", "+"} /\ AllDigits(Tail(s))

FloatOf(s) ==
    IF AllDigits(s) THEN DigitsToInt(s)
    ELSE IF s[1] = "-" THEN 0 - DigitsToInt(Tail(s))
    ELSE DigitsToInt(Tail(s))

(***************************************************************************)
(* Addresses (model.py)                                                    *)
(***************************************************************************)
\* the addresses of the model: A1, B1, C1 as (row, col)
Addrs == {<<0, 0>>, <<0, 1>>, <<0, 2>>}

\* a col_to_letter in plain base 26, with A as the digit zero
col_to_letter_base26(col) ==
    IF col < 26 THEN <<UpperSeq[col + 1]>>
    ELSE <<UpperSeq[((col \div 26) % 26) + 1], UpperSeq[(col % 26) + 1]>>

RECURSIVE col_to_letter_acc(_, _)
\* the loop of col_to_letter: result = chr(65 + col % 26) + result, then
\* col = col // 26 - 1, until col < 0
col_to_letter_acc(col, result) ==
    IF (col \div 26) - 1 < 0 THEN <<UpperSeq[(col % 26) + 1]>> \o result
    ELSE col_to_letter_acc((col \div 26) - 1, <<UpperSeq[(col % 26) + 1]>> \o result)

col_to_letter(col) == IF col >= 0 THEN col_to_letter_acc(col, <<>>) ELSE <<>>

RECURSIVE IntToDigits(_)
\* str(n) of a non-negative integer
IntToDigits(n) ==
    IF n < 10 THEN <<DigitSeq[n + 1]>>
    ELSE IntToDigits(n \div 10) \o <<DigitSeq[(n % 10) + 1]>>

\* letter_to_col
RECURSIVE letter_to_col_acc(_, _)
letter_to_col_acc(letter, result) ==
    IF letter = <<>> THEN result - 1
    ELSE letter_to_col_acc(Tail(letter),
            result * 26 + (CHOOSE i \in 1..26 : UpperSeq[i] = UpperChar(Head(letter))))

letter_to_col(letter) == letter_to_col_acc(letter, 0)

\* the split point of ^([A-Z]+)(\d+)$: 0 when the text does not match
RefSplit(s) ==
    IF \E i \in 1..(Len(s) - 1) :
          /\ \A j \in 1..i : s[j] \in UpperLetters
          /\ \A j \in (i + 1)..Len(s) : IsDigit(s[j])
    THEN CHOOSE i \in 1..(Len(s) - 1) :
          /\ \A j \in 1..i : s[j] \in UpperLetters
          /\ \A j \in (i + 1)..Len(s) : IsDigit(s[j])
    ELSE 0

IsCellRefText(s) == RefSplit(s) > 0

\* parse_address on a text that matches the pattern: (row, col), 0-based
parse_address(addr) ==
    LET u == Upper(addr)
        i == RefSplit(u)
    IN  <<DigitsToInt(SubSeq(u, i + 1, Len(u))) - 1, letter_to_col(SubSeq(u, 1, i))>>

\* address_to_string: f"{col_to_letter(col)}{row + 1}"
address_to_string(row, col) == col_to_letter(col) \o IntToDigits(row + 1)

Min2(a, b) == IF a < b THEN a ELSE b

Max2(a, b) == IF a > b THEN a ELSE b

\* the row-major list of the cells of rows lo_r..hi_r and columns lo_c..hi_c
RECURSIVE RectCells(_, _, _, _, _, _)
RectCells(r, c, lo_c, hi_r, hi_c, acc) ==
    IF r > hi_r THEN acc
    ELSE IF c > hi_c THEN RectCells(r + 1, lo_c, lo_c, hi_r, hi_c, acc)
    ELSE RectCells(r, c + 1, lo_c, hi_r, hi_c, Append(acc, <<r, c>>))

\* parse_range on "X:Y" given as its two addresses
parse_range(start_addr, end_addr) ==
    LET s == parse_address(start_addr)
        e == parse_address(end_addr)
    IN  RectCells(Min2(s[1], e[1]), Min2(s[2], e[2]), Min2(s[2], e[2]),
                  Max2(s[1], e[1]), Max2(s[2], e[2]), <<>>)

(***************************************************************************)
(* Tokenizer (formula.py, FormulaTokenizer)                                *)
(***************************************************************************)
Token(type, value) == [type |-> type, value |-> value]

EOFToken == Token("EOF", <<>>)

RECURSIVE ScanWhile(_, _, _)
\* the first position at or after p whose character is not in class
ScanWhile(s, p, class) ==
    IF p <= Len(s) /\ s[p] \in class THEN ScanWhile(s, p + 1, class) ELSE p

RECURSIVE ScanUntil(_, _, _)
\* the first position at or after p whose character is ch
ScanUntil(s, p, ch) ==
    IF p <= Len(s) /\ s[p] # ch THEN ScanUntil(s, p + 1, ch) ELSE p

RECURSIVE StripLeft(_)
StripLeft(s) == IF s # <<>> /\ IsSpace(Head(s)) THEN StripLeft(Tail(s)) ELSE s

RECURSIVE StripRight(_)
StripRight(s) ==
    IF s # <<>> /\ IsSpace(s[Len(s)]) THEN StripRight(SubSeq(s, 1, Len(s) - 1)) ELSE s

\* FormulaTokenizer.__init__: strip, then drop one leading '='
TokenizerInput(formula) ==
    LET f == StripRight(StripLeft(formula))
    IN  IF f # <<>> /\ f[1] = "=" THEN Tail(f) ELSE f

read_number(s, p) ==
    LET q == ScanWhile(s, p, Digits \cup {"."})
    IN  [tok |-> Token("NUMBER", Slice(s, p, q - 1)), next |-> q]

\* an unterminated string loses its last character, as formula[start+1:position-1] does
read_string(s, p) ==
    LET q == ScanUntil(s, p + 1, "\"")
    IN  IF q <= Len(s)
        THEN [tok |-> Token("STRING", Slice(s, p + 1, q - 1)), next |-> q + 1]
        ELSE [tok |-> Token("STRING", Slice(s, p + 1, Len(s) - 1)), next |-> Len(s) + 1]

read_identifier(s, p) ==
    LET alnum == Digits \cup UpperLetters \cup LowerLetters
        q == ScanWhile(s, p, alnum)
        value == Slice(s, p, q - 1)
        q2 == ScanWhile(s, q + 1, alnum)
        range_end == Slice(s, q + 1, q2 - 1)
    IN  IF IsCellRefText(value)
        THEN IF q < Len(s) /\ s[q] = ":"
             THEN IF IsCellRefText(range_end)
                  THEN [tok |-> Token("RANGE", value \o <<":">> \o range_end), next |-> q2]
                  ELSE [tok |-> Token("CELL_REF", value), next |-> q]
             ELSE [tok |-> Token("CELL_REF", value), next |-> q]
        ELSE [tok |-> Token("FUNCTION", value), next |-> q]

read_operator(s, p) ==
    IF s[p] \in {"<", ">", "="} /\ p + 1 <= Len(s) /\ s[p + 1] = "="
    THEN [tok |-> Token("OPERATOR", <<s[p], "=">>), next |-> p + 2]
    ELSE [tok |-> Token("OPERATOR", <<s[p]>>), next |-> p + 1]

RECURSIVE tokenize_from(_, _, _)
tokenize_from(s, p, toks) ==
    LET p1 == ScanWhile(s, p, {" "})
    IN  IF p1 > Len(s) THEN Append(toks, EOFToken)
        ELSE LET ch == s[p1]
                 r == IF IsDigit(ch) \/ ch = "." THEN read_number(s, p1)
                      ELSE IF ch = "\"" THEN read_string(s, p1)
                      ELSE IF IsAlpha(ch) THEN read_identifier(s, p1)
                      ELSE read_operator(s, p1)
             IN  IF IsDigit(ch) \/ ch = "." \/ ch = "\"" \/ IsAlpha(ch)
                    \/ ch \in {"+", "-", "*", "/", "^", "=", "<", ">"}
                 THEN tokenize_from(s, r.next, Append(toks, r.tok))
                 ELSE IF ch = "(" THEN tokenize_from(s, p1 + 1, Append(toks, Token("LPAREN", <<ch>>)))
                 ELSE IF ch = ")" THEN tokenize_from(s, p1 + 1, Append(toks, Token("RPAREN", <<ch>>)))
                 ELSE IF ch = "," THEN tokenize_from(s, p1 + 1, Append(toks, Token("COMMA", <<ch>>)))
                 ELSE tokenize_from(s, p1 + 1, toks)

tokenize(formula) == tokenize_from(TokenizerInput(formula), 1, <<>>)

(***************************************************************************)
(* Parser (formula.py, FormulaParser).  A parse result is                  *)
(* [ok, node, pos]; ok = FALSE stands for the ValueError the parser raises.*)
(***************************************************************************)
NumberNode(value) == [type |-> "Number", value |-> value]

StringNode(value) == [type |-> "String", value |-> value]

CellRefNode(row, col) == [type |-> "CellRef", row |-> row, col |-> col]

RangeNode(cells) == [type |-> "Range", cells |-> cells]

BinaryOpNode(left, operator, right) ==
    [type |-> "BinaryOp", left |-> left, operator |-> operator, right |-> right]

UnaryOpNode(operator, operand) ==
    [type |-> "UnaryOp", operator |-> operator, operand |-> operand]

FunctionNode(name, args) == [type |-> "Function", name |-> name, args |-> args]

Parsed(node, pos) == [ok |-> TRUE, node |-> node, pos |-> pos]

ParseError == [ok |-> FALSE, node |-> NumberNode(0), pos |-> 0]

\* FormulaParser._advance: the position never moves past the EOF token
Advance(toks, i) == IF i < Len(toks) THEN i + 1 ELSE i

IsOperator(tok, ops) == tok.type = "OPERATOR" /\ tok.value \in ops

ComparisonOps == {<<"=">>, <<"<", ">">>, <<"<">>, <<"<", "=">>, <<">">>, <<">", "=">>}

\* left = BinaryOpNode(left, op, right): l is the left operand parsed so far,
\* with the operator at l.pos, and r the right operand
BinaryOp_of(toks, l, r) ==
    IF r.ok THEN Parsed(BinaryOpNode(l.node, toks[l.pos].value, r.node), r.pos)
    ELSE ParseError

\* UnaryOpNode(op, operand)
UnaryOp_of(op, r) ==
    IF r.ok THEN Parsed(UnaryOpNode(op, r.node), r.pos) ELSE ParseError

RECURSIVE parse_expression(_, _), parse_comparison(_, _), comparison_loop(_, _),
          parse_addition(_, _), addition_loop(_, _), parse_multiplication(_, _),
          multiplication_loop(_, _), parse_power(_, _), power_right(_, _),
          parse_unary(_, _), parse_primary(_, _), parse_function(_, _),
          function_first(_, _), function_args(_, _, _), function_next(_, _, _)

parse_expression(toks, i) == parse_comparison(toks, i)

\* the while loop of _parse_comparison, entered with the left operand l
comparison_loop(toks, l) ==
    IF l.ok /\ IsOperator(toks[l.pos], ComparisonOps)
    THEN comparison_loop(toks,
                         BinaryOp_of(toks, l, parse_addition(toks, Advance(toks, l.pos))))
    ELSE l

parse_comparison(toks, i) == comparison_loop(toks, parse_addition(toks, i))

\* the while loop of _parse_addition
addition_loop(toks, l) ==
    IF l.ok /\ IsOperator(toks[l.pos], {<<"+">>, <<"-">>})
    THEN addition_loop(toks,
                       BinaryOp_of(toks, l, parse_multiplication(toks, Advance(toks, l.pos))))
    ELSE l

parse_addition(toks, i) == addition_loop(toks, parse_multiplication(toks, i))

\* the while loop of _parse_multiplication
multiplication_loop(toks, l) ==
    IF l.ok /\ IsOperator(toks[l.pos], {<<"*">>, <<"/">>})
    THEN multiplication_loop(toks,
                             BinaryOp_of(toks, l, parse_power(toks, Advance(toks, l.pos))))
    ELSE l

parse_multiplication(toks, i) == multiplication_loop(toks, parse_power(toks, i))

\* the right-associative '^' of _parse_power, after the left operand l
power_right(toks, l) ==
    IF l.ok /\ IsOperator(toks[l.pos], {<<"^">>})
    THEN BinaryOp_of(toks, l, parse_power(toks, Advance(toks, l.pos)))
    ELSE l

parse_power(toks, i) == power_right(toks, parse_unary(toks, i))

parse_unary(toks, i) ==
    IF IsOperator(toks[i], {<<"+">>, <<"-">>})
    THEN UnaryOp_of(toks[i].value, parse_unary(toks, Advance(toks, i)))
    ELSE parse_primary(toks, i)

\* the LPAREN branch of _parse_primary after the inner expression r: a missing
\* ')' is not an error
close_paren(toks, r) ==
    IF ~r.ok THEN ParseError
    ELSE IF toks[r.pos].type = "RPAREN" THEN Parsed(r.node, Advance(toks, r.pos))
    ELSE r

\* a RANGE token "A1:B2" as a RangeNode
range_of(text, colon) ==
    RangeNode(parse_range(Slice(text, 1, colon - 1), Slice(text, colon + 1, Len(text))))

cell_ref_of(address) == CellRefNode(address[1], address[2])

parse_primary(toks, i) ==
    CASE toks[i].type = "NUMBER" ->
            \* float(token.value) raises ValueError on a malformed number
            IF FloatOk(toks[i].value)
            THEN Parsed(NumberNode(FloatOf(toks[i].value)), Advance(toks, i))
            ELSE ParseError
      [] toks[i].type = "STRING" -> Parsed(StringNode(toks[i].value), Advance(toks, i))
      [] toks[i].type = "CELL_REF" ->
            Parsed(cell_ref_of(parse_address(toks[i].value)), Advance(toks, i))
      [] toks[i].type = "RANGE" ->
            Parsed(range_of(toks[i].value, ScanUntil(toks[i].value, 1, ":")),
                   Advance(toks, i))
      [] toks[i].type = "FUNCTION" -> parse_function(toks, i)
      [] toks[i].type = "LPAREN" ->
            close_paren(toks, parse_expression(toks, Advance(toks, i)))
      [] OTHER -> ParseError

NoArgs == [ok |-> FALSE, args |-> <<>>, pos |-> 0]

\* the arguments after the first: [ok, args, pos]
function_args(toks, args, i) ==
    IF toks[i].type = "COMMA"
    THEN function_next(toks, args, parse_expression(toks, Advance(toks, i)))
    ELSE [ok |-> TRUE, args |-> args, pos |-> i]

function_next(toks, args, r) ==
    IF r.ok THEN function_args(toks, Append(args, r.node), r.pos) ELSE NoArgs

\* the argument list from its first argument
function_first(toks, first) ==
    IF first.ok THEN function_args(toks, <<first.node>>, first.pos) ELSE NoArgs

\* the closing ')' of a call
close_function(toks, name, rest) ==
    IF ~rest.ok THEN ParseError
    ELSE IF toks[rest.pos].type # "RPAREN" THEN ParseError
    ELSE Parsed(FunctionNode(name, rest.args), Advance(toks, rest.pos))

\* _parse_function, at token j after the name and token k after that
function_call(toks, name, j, k) ==
    IF toks[j].type # "LPAREN" THEN ParseError
    ELSE IF toks[k].type = "RPAREN" THEN Parsed(FunctionNode(name, <<>>), Advance(toks, k))
    ELSE close_function(toks, name, function_first(toks, parse_expression(toks, k)))

parse_function(toks, i) ==
    function_call(toks, toks[i].value, Advance(toks, i), Advance(toks, Advance(toks, i)))

\* parse_formula: [ok, node]; tokens after the parsed expression are ignored
parse_formula(formula) == parse_expression(tokenize(formula), 1)

(***************************************************************************)
(* Values.  A Python value is a record [k, v]: a float (an integer here), a *)
(* str (a character sequence), a bool, a list or None.  Raise(e) stands    *)
(* for the exception e travelling up the evaluator.                        *)
(***************************************************************************)
Num(n) == [k |-> "num", v |-> n]

Str(s) == [k |-> "str", v |-> s]

Bool(b) == [k |-> "bool", v |-> b]

List(l) == [k |-> "list", v |-> l]

NoneV == [k |-> "none", v |-> 0]

Raise(e) == [k |-> "raise", v |-> e]

IsRaise(x) == x.k = "raise"

CYCLE == <<"#", "C", "Y", "C", "L", "E", "!">>

DIV0 == <<"#", "D", "I", "V", "/", "0", "!">>

VALUE == <<"#", "V", "A", "L", "U", "E", "!">>

REF == <<"#", "R", "E", "F", "!">>

NAME == <<"#", "N", "A", "M", "E", "?">>

ERROR == <<"#", "E", "R", "R", "O", "R", "!">>

\* isinstance(x, str) and x.startswith('#')
IsErrorValue(x) == x.k = "str" /\ Len(x.v) > 0 /\ x.v[1] = "#"

\* Python's ==, in which True == 1.0 and False == 0.0
RECURSIVE PyNorm(_)
PyNorm(x) ==
    IF x.k = "bool" THEN Num(IF x.v THEN 1 ELSE 0)
    ELSE IF x.k = "list" THEN List([i \in 1..Len(x.v) |-> PyNorm(x.v[i])])
    ELSE x

PyEq(a, b) == PyNorm(a) = PyNorm(b)

(***************************************************************************)
(* Evaluator (formula.py, FormulaEvaluator)                                *)
(***************************************************************************)
\* _to_number: a number, or Raise("ValueError").  A bool is an int in Python.
to_number(value) ==
    CASE value.k = "num" -> value
      [] value.k = "bool" -> Num(IF value.v THEN 1 ELSE 0)
      [] value.k = "str" ->
            IF value.v = <<>> THEN Num(0)
            ELSE IF FloatOk(value.v) THEN Num(FloatOf(value.v))
            ELSE Raise("ValueError")
      [] OTHER -> Raise("ValueError")

\* CalculationEngine._get_cell_value
get_cell_value(cells, row, col) ==
    IF <<row, col>> \notin DOMAIN cells THEN Str(<<>>)
    ELSE IF cells[<<row, col>>].value # NoneV THEN cells[<<row, col>>].value
    ELSE Str(<<>>)

\* _flatten_ranges
RECURSIVE flatten_ranges(_)
flatten_ranges(args) ==
    IF args = <<>> THEN <<>>
    ELSE IF Head(args).k = "list" THEN Head(args).v \o flatten_ranges(Tail(args))
    ELSE <<Head(args)>> \o flatten_ranges(Tail(args))

\* [self._to_number(v) for v in values if v != ""]: the numbers, or the first
\* exception met
RECURSIVE numeric_values(_, _)
numeric_values(values, acc) ==
    IF values = <<>> THEN List(acc)
    ELSE IF PyEq(Head(values), Str(<<>>)) THEN numeric_values(Tail(values), acc)
    ELSE IF IsRaise(to_number(Head(values))) THEN to_number(Head(values))
    ELSE numeric_values(Tail(values), Append(acc, to_number(Head(values)).v))

RECURSIVE SumSeq(_)
SumSeq(ns) == IF ns = <<>> THEN 0 ELSE Head(ns) + SumSeq(Tail(ns))

MinSeq(ns) == CHOOSE m \in {ns[i] : i \in 1..Len(ns)} : \A i \in 1..Len(ns) : m <= ns[i]

MaxSeq(ns) == CHOOSE m \in {ns[i] : i \in 1..Len(ns)} : \A i \in 1..Len(ns) : m >= ns[i]

Abs(n) == IF n < 0 THEN 0 - n ELSE n

\* Python's a / b for b # 0, on the integers of the model
FloatDiv(a, b) == IF b > 0 THEN a \div b ELSE (0 - a) \div (0 - b)

\* the built-in functions the texts of the model call
FunctionNames == {<<"S", "U", "M">>, <<"A", "V", "E", "R", "A", "G", "E">>,
                  <<"M", "I", "N">>, <<"M", "A", "X">>, <<"C", "O", "U", "N", "T">>,
                  <<"I", "F">>, <<"A", "B", "S">>}

sum_fn(args) ==
    LET nums == numeric_values(flatten_ranges(args), <<>>)
    IN  IF IsRaise(nums) THEN nums ELSE Num(SumSeq(nums.v))

average_fn(args) ==
    LET nums == numeric_values(flatten_ranges(args), <<>>)
    IN  IF IsRaise(nums) THEN nums
        ELSE IF nums.v = <<>> THEN Str(DIV0)
        ELSE Num(FloatDiv(SumSeq(nums.v), Len(nums.v)))

min_fn(args) ==
    LET nums == numeric_values(flatten_ranges(args), <<>>)
    IN  IF IsRaise(nums) THEN nums
        ELSE IF nums.v = <<>> THEN Str(VALUE)
        ELSE Num(MinSeq(nums.v))

max_fn(args) ==
    LET nums == numeric_values(flatten_ranges(args), <<>>)
    IN  IF IsRaise(nums) THEN nums
        ELSE IF nums.v = <<>> THEN Str(VALUE)
        ELSE Num(MaxSeq(nums.v))

count_fn(args) ==
    LET values == flatten_ranges(args)
    IN  Num(Cardinality({i \in 1..Len(values) : ~PyEq(values[i], Str(<<>>))}))

if_fn(args) ==
    LET condition == args[1]
        true_value == args[2]
        false_value == IF Len(args) > 2 THEN args[3] ELSE Str(<<>>)
        n == to_number(condition)
    IN  IF Len(args) < 2 THEN Str(VALUE)
        ELSE IF condition.k = "bool" THEN (IF condition.v THEN true_value ELSE false_value)
        ELSE IF IsRaise(n) THEN n
        ELSE IF n.v # 0 THEN true_value ELSE false_value

abs_fn(args) ==
    IF Len(args) # 1 THEN Str(VALUE)
    ELSE IF IsRaise(to_number(args[1])) THEN to_number(args[1])
    ELSE Num(Abs(to_number(args[1]).v))

call_function(func_name, args) ==
    CASE func_name = <<"S", "U", "M">> -> sum_fn(args)
      [] func_name = <<"A", "V", "E", "R", "A", "G", "E">> -> average_fn(args)
      [] func_name = <<"M", "I", "N">> -> min_fn(args)
      [] func_name = <<"M", "A", "X">> -> max_fn(args)
      [] func_name = <<"C", "O", "U", "N", "T">> -> count_fn(args)
      [] func_name = <<"I", "F">> -> if_fn(args)
      [] OTHER -> abs_fn(args)

\* the index of the first error sentinel among the argument values, as the loop
\* "for arg in args: if ...: return arg" of _evaluate_function finds it; 0 when
\* there is none
FirstError(xs) ==
    IF \E i \in 1..Len(xs) : IsErrorValue(xs[i])
    THEN CHOOSE i \in 1..Len(xs) :
            IsErrorValue(xs[i]) /\ \A j \in 1..(i - 1) : ~IsErrorValue(xs[j])
    ELSE 0

RECURSIVE Power(_, _)
Power(a, n) == IF n = 0 THEN 1 ELSE a * Power(a, n - 1)

\* the arithmetic and ordering operators on two numbers
arith(op, l, r) ==
    CASE op = <<"+">> -> Num(l + r)
      [] op = <<"-">> -> Num(l - r)
      [] op = <<"*">> -> Num(l * r)
      [] op = <<"/">> -> IF r = 0 THEN Raise("ZeroDivisionError") ELSE Num(FloatDiv(l, r))
      [] op = <<"^">> -> IF r >= 0 THEN Num(Power(l, r))
                         ELSE IF l = 0 THEN Raise("ZeroDivisionError")
                         ELSE Num(FloatDiv(1, Power(l, 0 - r)))
      [] op = <<"<">> -> Bool(l < r)
      [] op = <<"<", "=">> -> Bool(l <= r)
      [] op = <<">">> -> Bool(l > r)
      [] OTHER -> Bool(l >= r)

ArithOps == {<<"+">>, <<"-">>, <<"*">>, <<"/">>, <<"^">>,
             <<"<">>, <<"<", "=">>, <<">">>, <<">", "=">>}

RECURSIVE evaluate_node(_, _), evaluate_args(_, _, _)

\* _evaluate_binary_op, after both operands were evaluated without exception
binary_op(op, left, right) ==
    IF IsErrorValue(left) THEN left
    ELSE IF IsErrorValue(right) THEN right
    ELSE IF op \in ArithOps
    THEN \* each branch converts the left operand first, except '/', which
         \* converts the right operand first
         LET first == IF op = <<"/">> THEN right ELSE left
             second == IF op = <<"/">> THEN left ELSE right
         IN  IF IsRaise(to_number(first)) THEN to_number(first)
             ELSE IF op = <<"/">> /\ to_number(right).v = 0 THEN Raise("ZeroDivisionError")
             ELSE IF IsRaise(to_number(second)) THEN to_number(second)
             ELSE arith(op, to_number(left).v, to_number(right).v)
    ELSE IF op = <<"=">> THEN Bool(PyEq(left, right))
    ELSE IF op = <<"<", ">">> THEN Bool(~PyEq(left, right))
    ELSE Str(ERROR)

\* the values of a RangeNode: the non-empty cell values in list order
RECURSIVE range_values(_, _)
range_values(cells, range_cells) ==
    IF range_cells = <<>> THEN <<>>
    ELSE LET value == get_cell_value(cells, Head(range_cells)[1], Head(range_cells)[2])
         IN  IF PyEq(value, Str(<<>>)) THEN range_values(cells, Tail(range_cells))
             ELSE <<value>> \o range_values(cells, Tail(range_cells))

\* [self._evaluate_node(arg) for arg in node.args]: the values, or the first
\* exception raised
evaluate_args(args, cells, acc) ==
    IF args = <<>> THEN List(acc)
    ELSE LET x == evaluate_node(Head(args), cells)
         IN  IF IsRaise(x) THEN x ELSE evaluate_args(Tail(args), cells, Append(acc, x))

\* _evaluate_node (with _evaluate_binary_op and _evaluate_function)
evaluate_node(node, cells) ==
    CASE node.type = "Number" -> Num(node.value)
      [] node.type = "String" -> Str(node.value)
      [] node.type = "CellRef" ->
            LET value == get_cell_value(cells, node.row, node.col)
            IN  IF value.k = "str" /\ LooksNumeric(value.v)
                THEN (IF IsRaise(to_number(value)) THEN Str(REF) ELSE to_number(value))
                ELSE value
      [] node.type = "Range" -> List(range_values(cells, node.cells))
      [] node.type = "BinaryOp" ->
            LET left == evaluate_node(node.left, cells)
                right == evaluate_node(node.right, cells)
            IN  IF IsRaise(left) THEN left
                ELSE IF IsRaise(right) THEN right
                ELSE binary_op(node.operator, left, right)
      [] node.type = "UnaryOp" ->
            LET operand == evaluate_node(node.operand, cells)
                n == to_number(operand)
            IN  IF IsRaise(operand) THEN operand
                ELSE IF IsRaise(n) THEN n
                ELSE IF node.operator = <<"+">> THEN n
                ELSE Num(0 - n.v)
      [] OTHER ->
            LET args == evaluate_args(node.args, cells, <<>>)
                err == FirstError(args.v)
            IN  IF Upper(node.name) \notin FunctionNames THEN Str(NAME)
                ELSE IF IsRaise(args) THEN args
                ELSE IF err > 0 THEN args.v[err]
                ELSE call_function(Upper(node.name), args.v)

\* FormulaEvaluator.evaluate: exceptions become sentinels
evaluate(node, cells) ==
    LET result == evaluate_node(node, cells)
    IN  IF ~IsRaise(result) THEN result
        ELSE IF result.v = "ZeroDivisionError" THEN Str(DIV0)
        ELSE IF result.v = "ValueError" THEN Str(VALUE)
        ELSE Str(ERROR)

(***************************************************************************)
(* Cell store (model.py, Cell and Sheet).  sheet.cells is a function whose *)
(* domain is the set of stored addresses, as the dict of the code.         *)
(***************************************************************************)
EmptyFormat == <<>>

\* Cell.__init__: error starts as None
Cell(raw, value, format) ==
    [raw |-> raw, value |-> value, format |-> format, error |-> NoneV]

\* Cell(): raw = "", value = "", format = {}
EmptyCell == Cell(<<>>, Str(<<>>), EmptyFormat)

is_formula(cell) == Len(cell.raw) > 0 /\ cell.raw[1] = "="

\* d[key] = value on a dict held as a function
Put(d, key, value) == [x \in DOMAIN d \cup {key} |-> IF x = key THEN value ELSE d[x]]

\* del d[key]
Drop(d, key) == [x \in DOMAIN d \ {key} |-> d[x]]

NewSheet == [cells |-> <<>>, max_row |-> 0, max_col |-> 0]

\* Sheet.get_cell: creates and stores an empty cell when the address is absent
get_cell(sh, row, col) ==
    IF <<row, col>> \in DOMAIN sh.cells THEN sh
    ELSE [sh EXCEPT !.cells = Put(sh.cells, <<row, col>>, EmptyCell)]

\* Sheet.set_cell: value None means "use raw", format None (or {}) means {}
set_cell(sh, row, col, raw, value, format_dict) ==
    [cells |-> Put(sh.cells, <<row, col>>,
                   Cell(raw,
                        IF value # NoneV THEN value ELSE Str(raw),
                        IF format_dict = NoneV THEN EmptyFormat ELSE format_dict)),
     max_row |-> Max2(sh.max_row, row),
     max_col |-> Max2(sh.max_col, col)]

\* Sheet.delete_cell
delete_cell(sh, row, col) ==
    IF <<row, col>> \in DOMAIN sh.cells
    THEN [sh EXCEPT !.cells = Drop(sh.cells, <<row, col>>)]
    ELSE sh

\* SpreadsheetModel.set_cell_raw; the observers of the code only redraw
set_cell_raw(sh, row, col, raw) == set_cell(sh, row, col, raw, NoneV, NoneV)

(***************************************************************************)
(* Dependency graph (engine.py, DependencyGraph).  The two defaultdicts    *)
(* are functions on Addrs; a missing key is the empty set.                 *)
(***************************************************************************)
NewGraph ==
    [dependents |-> [a \in Addrs |-> {}],
     dependencies |-> [a \in Addrs |-> {}],
     ast_cache |-> <<>>]

\* clear_dependencies without the discard from the dependents sets
clear_dependencies_keeping_dependents(g, cell) ==
    [dependents |-> g.dependents,
     dependencies |-> [g.dependencies EXCEPT ![cell] = {}],
     ast_cache |-> IF cell \in DOMAIN g.ast_cache THEN Drop(g.ast_cache, cell)
                   ELSE g.ast_cache]

\* clear_dependencies that also forgets the cells that read the cleared cell
clear_dependencies_dropping_dependents(g, cell) ==
    [dependents |-> [d \in Addrs |->
                        IF d = cell THEN {}
                        ELSE IF d \in g.dependencies[cell] THEN g.dependents[d] \ {cell}
                        ELSE g.dependents[d]],
     dependencies |-> [g.dependencies EXCEPT ![cell] = {}],
     ast_cache |-> IF cell \in DOMAIN g.ast_cache THEN Drop(g.ast_cache, cell)
                   ELSE g.ast_cache]

clear_dependencies(g, cell) ==
    [dependents |-> [d \in Addrs |->
                        IF d \in g.dependencies[cell]
                        THEN g.dependents[d] \ {cell}
                        ELSE g.dependents[d]],
     dependencies |-> [g.dependencies EXCEPT ![cell] = {}],
     ast_cache |-> IF cell \in DOMAIN g.ast_cache THEN Drop(g.ast_cache, cell)
                   ELSE g.ast_cache]

add_dependency(g, dependent, dependency) ==
    [g EXCEPT !.dependencies[dependent] = @ \cup {dependency},
              !.dependents[dependency] = @ \cup {dependent}]

RECURSIVE add_dependencies(_, _, _)
\* for dep in dependencies: add_dependency(cell_pos, dep)
add_dependencies(g, dependent, deps) ==
    IF deps = {} THEN g
    ELSE LET d == CHOOSE x \in deps : TRUE
         IN  add_dependencies(add_dependency(g, dependent, d), dependent, deps \ {d})

RECURSIVE extract_dependencies_from_ast(_)
extract_dependencies_from_ast(ast) ==
    CASE ast.type = "CellRef" -> {<<ast.row, ast.col>>}
      [] ast.type = "Range" -> {ast.cells[i] : i \in 1..Len(ast.cells)}
      [] ast.type = "BinaryOp" ->
            extract_dependencies_from_ast(ast.left) \cup extract_dependencies_from_ast(ast.right)
      [] ast.type = "UnaryOp" -> extract_dependencies_from_ast(ast.operand)
      [] ast.type = "Function" ->
            UNION {extract_dependencies_from_ast(ast.args[i]) : i \in 1..Len(ast.args)}
      [] OTHER -> {}

SeqRange(q) == {q[i] : i \in 1..Len(q)}

IndexOf(q, x) == CHOOSE i \in 1..Len(q) : q[i] = x /\ \A j \in 1..(i - 1) : q[j] # x

RECURSIVE dfs(_, _, _, _), dfs_dependents(_, _, _, _)

\* a dfs that returns the whole path when it meets a cell of the path again
dfs_whole_path(g, cell, visited, path) ==
    IF cell \in SeqRange(path)
    THEN {[cycle |-> path, visited |-> visited]}
    ELSE IF cell \in visited THEN {[cycle |-> <<>>, visited |-> visited]}
    ELSE dfs_dependents(g, g.dependents[cell], visited \cup {cell}, Append(path, cell))

\* the inner dfs of find_cycles.  rec_stack is the set of the cells of path.
\* A set is iterated in an order the code does not fix, so the result is the
\* set of the outcomes [cycle, visited] over every order; cycle = <<>> is False.
dfs(g, cell, visited, path) ==
    IF cell \in SeqRange(path)
    THEN {[cycle |-> SubSeq(path, IndexOf(path, cell), Len(path)), visited |-> visited]}
    ELSE IF cell \in visited THEN {[cycle |-> <<>>, visited |-> visited]}
    ELSE dfs_dependents(g, g.dependents[cell], visited \cup {cell}, Append(path, cell))

\* for dependent in self.dependents[cell]: ... over the dependents not yet taken
dfs_dependents(g, remaining, visited, path) ==
    IF remaining = {} THEN {[cycle |-> <<>>, visited |-> visited]}
    ELSE UNION {UNION {IF o.cycle # <<>> THEN {o}
                       ELSE dfs_dependents(g, remaining \ {d}, o.visited, path)
                       : o \in dfs(g, d, visited, path)}
                : d \in remaining}

\* find_cycles: the lists the call may return
find_cycles(g, start_cell) == {o.cycle : o \in dfs(g, start_cell, {}, <<>>)}

RECURSIVE Perms(_)
\* the orders in which a set may be iterated
Perms(S) ==
    IF S = {} THEN {<<>>}
    ELSE UNION {{<<x>> \o q : q \in Perms(S \ {x})} : x \in S}

RECURSIVE kahn(_, _, _, _, _)
\* the while loop of topological_sort
kahn(g, cells, queue, result, in_degree) ==
    IF queue = <<>> THEN {result}
    ELSE LET cell == Head(queue)
             touched == g.dependents[cell] \cap cells
             reduced == [c \in Addrs |-> IF c \in touched THEN in_degree[c] - 1
                                         ELSE in_degree[c]]
             ready == {c \in touched : reduced[c] = 0}
         IN  UNION {kahn(g, cells, Tail(queue) \o q, Append(result, cell), reduced)
                    : q \in Perms(ready)}

\* a sort that returns the cells in any order
topological_sort_any_order(g, cells) == Perms(cells)

\* topological_sort: the lists the call may return
topological_sort(g, cells) ==
    LET in_degree == [c \in Addrs |->
                        IF c \in cells THEN Cardinality(g.dependencies[c] \cap cells) ELSE 0]
    IN  UNION {kahn(g, cells, q, <<>>, in_degree)
               : q \in Perms({c \in cells : in_degree[c] = 0})}

(***************************************************************************)
(* app1 dependency tracker (app1/ui.py, DependencyTracker).  The two plain *)
(* dicts are functions whose domain is the set of keys present.            *)
(***************************************************************************)
NewTracker == [dependencies |-> <<>>, dependents |-> <<>>]

\* dict.get(key, set())
GetOrEmpty(d, key) == IF key \in DOMAIN d THEN d[key] ELSE {}

\* DependencyTracker.clear_dependencies
tracker_clear_dependencies(t, cell) ==
    IF cell \in DOMAIN t.dependencies
    THEN [dependents |-> [d \in DOMAIN t.dependents |->
                             IF d \in t.dependencies[cell]
                             THEN t.dependents[d] \ {cell}
                             ELSE t.dependents[d]],
          dependencies |-> Drop(t.dependencies, cell)]
    ELSE t

\* DependencyTracker.add_dependency
tracker_add_dependency(t, cell, depends_on) ==
    [dependencies |-> Put(t.dependencies, cell,
                          GetOrEmpty(t.dependencies, cell) \cup {depends_on}),
     dependents |-> Put(t.dependents, depends_on,
                        GetOrEmpty(t.dependents, depends_on) \cup {cell})]

\* DependencyTracker.get_dependents
tracker_get_dependents(t, cell) == GetOrEmpty(t.dependents, cell)

\* a has_cycle that looks no further than the cell's own dependencies
has_cycle_self_only(t, cell, visited) == cell \in GetOrEmpty(t.dependencies, cell)

RECURSIVE has_cycle(_, _, _)
\* DependencyTracker.has_cycle: every recursive call gets its own copy of
\* visited, which so holds the cells on the way from the first cell
has_cycle(t, cell, visited) ==
    IF cell \in visited THEN TRUE
    ELSE \E dep \in GetOrEmpty(t.dependencies, cell) : has_cycle(t, dep, visited \cup {cell})

(***************************************************************************)
(* Calculation engine (engine.py, CalculationEngine)                       *)
(***************************************************************************)
RECURSIVE mark_closure(_, _, _)
\* the loop of mark_dirty: marked grows by the dependents of every marked cell
mark_closure(g, to_mark, marked) ==
    IF to_mark = {} THEN marked
    ELSE LET current == CHOOSE x \in to_mark : TRUE
         IN  IF current \in marked THEN mark_closure(g, to_mark \ {current}, marked)
             ELSE mark_closure(g, (to_mark \ {current}) \cup g.dependents[current],
                               marked \cup {current})

\* mark_dirty: the new dirty set
mark_dirty(g, dirty, cell) == dirty \cup mark_closure(g, {cell}, {})

\* the literal branch of _calculate_cell: float(cell.raw), or the raw text
literal_cell(cell) ==
    IF LooksNumeric(cell.raw) /\ FloatOk(cell.raw)
    THEN [cell EXCEPT !.error = NoneV, !.value = Num(FloatOf(cell.raw))]
    ELSE [cell EXCEPT !.error = NoneV, !.value = Str(cell.raw)]

\* the formula branch of _calculate_cell, given what the evaluator returned
result_cell(cell, result) ==
    IF IsErrorValue(result)
    THEN [cell EXCEPT !.error = result, !.value = result]
    ELSE [cell EXCEPT !.error = NoneV, !.value = result]

\* the cell _calculate_cell leaves at cell_pos
calculated_cell(cell, cells, g, cell_pos) ==
    IF ~is_formula(cell) THEN literal_cell(cell)
    ELSE IF cell_pos \in DOMAIN g.ast_cache
    THEN result_cell(cell, evaluate(g.ast_cache[cell_pos], cells))
    ELSE [cell EXCEPT !.error = Str(ERROR), !.value = Str(ERROR)]

\* _calculate_cell on a sheet that stores the cell
calculate_stored(sh, g, cell_pos) ==
    [sh EXCEPT !.cells[cell_pos] = calculated_cell(sh.cells[cell_pos], sh.cells, g, cell_pos)]

\* _calculate_cell: the sheet after the cell was calculated; get_cell stores
\* an empty cell when the address is absent
calculate_cell(sh, g, cell_pos) ==
    calculate_stored(get_cell(sh, cell_pos[1], cell_pos[2]), g, cell_pos)

RECURSIVE calculate_all(_, _, _)
\* for cell_pos in calc_order: self._calculate_cell(cell_pos)
calculate_all(sh, g, calc_order) ==
    IF calc_order = <<>> THEN sh
    ELSE calculate_all(calculate_cell(sh, g, Head(calc_order)), g, Tail(calc_order))

\* recalculate without dirty_cells.clear()
recalculate_keeping_dirty(sh, g, dirty, busy) ==
    IF busy \/ dirty = {}
    THEN {[sheet |-> sh, dirty |-> dirty, order |-> <<>>, sorted |-> {}, ran |-> FALSE]}
    ELSE {[sheet |-> calculate_all(sh, g, calc_order), dirty |-> dirty,
           order |-> calc_order, sorted |-> dirty, ran |-> TRUE]
          : calc_order \in topological_sort(g, dirty)}

\* recalculate: the outcomes the call may have: the sheet and the dirty set it
\* leaves, the order it evaluated, the set it sorted and whether a pass ran
recalculate(sh, g, dirty, busy) ==
    IF busy \/ dirty = {}
    THEN {[sheet |-> sh, dirty |-> dirty, order |-> <<>>, sorted |-> {}, ran |-> FALSE]}
    ELSE {[sheet |-> calculate_all(sh, g, calc_order), dirty |-> {},
           order |-> calc_order, sorted |-> dirty, ran |-> TRUE]
          : calc_order \in topological_sort(g, dirty)}

\* marking that reaches only the first cell of the cycle
mark_cycle_first_only(sh, cycles) ==
    IF cycles = <<>> THEN sh
    ELSE LET c == Head(cycles)
             sh1 == get_cell(sh, c[1], c[2])
         IN  [sh1 EXCEPT !.cells[c].error = Str(CYCLE), !.cells[c].value = Str(CYCLE)]

RECURSIVE mark_cycle(_, _)
\* for cycle_cell in cycles: cell.error = cell.value = "#CYCLE!"
mark_cycle(sh, cycles) ==
    IF cycles = <<>> THEN sh
    ELSE LET c == Head(cycles)
             sh1 == get_cell(sh, c[1], c[2])
         IN  mark_cycle([sh1 EXCEPT !.cells[c].error = Str(CYCLE),
                                    !.cells[c].value = Str(CYCLE)],
                        Tail(cycles))

\* self.ast_cache[cell_pos] = ast, then add_dependency for every cell the AST reads
with_formula(g, cell_pos, ast) ==
    add_dependencies([g EXCEPT !.ast_cache = Put(g.ast_cache, cell_pos, ast)],
                     cell_pos, extract_dependencies_from_ast(ast))

\* what set_cell_formula has found when its cycle check is over: the graph and
\* "error" (the formula did not parse), "cycle" (find_cycles returned a cycle) or
\* "marked" (the cell is to be marked dirty)
Checked(g, outcome, cycle) == [graph |-> g, outcome |-> outcome, cycle |-> cycle]

\* the cycle check on the graph that holds the new formula
check_cycles(g, cell_pos) ==
    {Checked(g, IF cycles # <<>> THEN "cycle" ELSE "marked", cycles)
     : cycles \in find_cycles(g, cell_pos)}

\* the parse and the cycle check of a formula, on the graph cleared of cell_pos
check_formula(g, cell_pos, parsed) ==
    IF ~parsed.ok THEN {Checked(g, "error", <<>>)}
    ELSE check_cycles(with_formula(g, cell_pos, parsed.node), cell_pos)

\* set_cell_formula up to its cycle check
check_cell(g, cell_pos, formula) ==
    IF Len(formula) > 0 /\ formula[1] = "="
    THEN check_formula(g, cell_pos, parse_formula(formula))
    ELSE {Checked(g, "marked", <<>>)}

\* the record of one outcome of set_cell_formula
Outcome(sh, c, dirty, order, sorted, ran) ==
    [sheet |-> sh, graph |-> c.graph, dirty |-> dirty, outcome |-> c.outcome,
     cycle |-> c.cycle, order |-> order, sorted |-> sorted, ran |-> ran]

\* the cell with the '#ERROR!' of a formula that did not parse
error_cell(sh, cell_pos) ==
    [sh EXCEPT !.cells[cell_pos].error = Str(ERROR), !.cells[cell_pos].value = Str(ERROR)]

\* the end of set_cell_formula: the parse error or the cycle is stored, or the
\* cell is marked dirty and recalculate is called unless the engine is calculating
conclude(sh, dirty, busy, cell_pos, c) ==
    CASE c.outcome = "error" ->
            {Outcome(error_cell(get_cell(sh, cell_pos[1], cell_pos[2]), cell_pos),
                     c, dirty, <<>>, {}, FALSE)}
      [] c.outcome = "cycle" -> {Outcome(mark_cycle(sh, c.cycle), c, dirty, <<>>, {}, FALSE)}
      [] OTHER ->
            IF busy
            THEN {Outcome(sh, c, mark_dirty(c.graph, dirty, cell_pos), <<>>, {}, FALSE)}
            ELSE {Outcome(r.sheet, c, r.dirty, r.order, r.sorted, r.ran)
                  : r \in recalculate(sh, c.graph, mark_dirty(c.graph, dirty, cell_pos), busy)}

\* set_cell_formula: the outcomes the call may have
set_cell_formula(sh, g, dirty, busy, cell_pos, formula) ==
    UNION {conclude(sh, dirty, busy, cell_pos, c)
           : c \in check_cell(clear_dependencies(g, cell_pos), cell_pos, formula)}

(***************************************************************************)
(* The texts a user enters                                                 *)
(***************************************************************************)
A1 == <<0, 0>>

B1 == <<0, 1>>

C1 == <<0, 2>>

T_7 == <<"7">>

T_A1 == <<"=", "A", "1">>

T_B1 == <<"=", "B", "1">>

T_C1 == <<"=", "C", "1">>

T_A1plus1 == <<"=", "A", "1", "+", "1">>

T_A1div0 == <<"=", "A", "1", "/", "0">>

T_B1plus5 == <<"=", "B", "1", "+", "5">>

T_negB1 == <<"=", "-", "B", "1">>

T_absB1 == <<"=", "A", "B", "S", "(", "B", "1", ")">>

T_B1lt5 == <<"=", "B", "1", "<", "5">>

T_A1plusC1 == <<"=", "A", "1", "+", "C", "1">>

T_1plus1 == <<"=", "1", "+", "1">>

\* '=' followed by a lone operator: the parser raises ValueError
T_bad == <<"=", "+">>

Texts == {T_7, T_A1, T_B1, T_C1, T_A1plus1, T_A1div0, T_B1plus5, T_negB1,
          T_absB1, T_B1lt5, T_A1plusC1, T_1plus1, T_bad}

(***************************************************************************)
(* State.  last records what the latest operation did: the operation, its *)
(* cell, the outcome of set_cell_formula, the cycle find_cycles returned,  *)
(* the order recalculate evaluated and the dirty set it sorted.  trail     *)
(* records the latest operations of the UI with the sheet before each;     *)
(* steps counts the operations performed.  held tells which cells have as  *)
(* their format the very dict a command of the log keeps (see the commands *)
(* of undo.py below); it stays empty where no command of the log runs.     *)
(* pass_order holds the cells a recalculate() in flight has still to       *)
(* evaluate; it stays empty where recalculate() is taken as one step.      *)
(***************************************************************************)
Done(op, cell, outcome, cycle, order, sorted) ==
    [op |-> op, cell |-> cell, outcome |-> outcome, cycle |-> cycle,
     order |-> order, sorted |-> sorted]

\* app1's SpreadsheetWindow before any edit: no cell, no call in progress
NewWindow == [cells |-> <<>>, calls |-> <<>>, outcome |-> "none"]

Init ==
    /\ sheet = NewSheet
    /\ dependency_graph = NewGraph
    /\ dirty_cells = {}
    /\ calculating = FALSE
    /\ pass_order = <<>>
    /\ undo_stack = <<>>
    /\ redo_stack = <<>>
    /\ tracker = NewTracker
    /\ window = NewWindow
    /\ held = <<>>
    /\ last = Done("init", A1, "none", <<>>, <<>>, {})
    /\ trail = <<>>
    /\ steps = 0

\* every operation counts as one step of the bounded behaviour
Step == steps < MaxSteps /\ steps' = steps + 1

\* model.set_cell_raw(r, c, t) followed by engine.set_cell_formula(r, c, t), the
\* way test_calculation_engine edits a cell
Edit(cell, text) ==
    /\ Step
    /\ \E r \in set_cell_formula(set_cell_raw(sheet, cell[1], cell[2], text),
                                 dependency_graph, dirty_cells, calculating, cell, text) :
          /\ sheet' = r.sheet
          /\ dependency_graph' = r.graph
          /\ dirty_cells' = r.dirty
          /\ last' = Done("edit", cell, r.outcome, r.cycle, r.order, r.sorted)
    /\ UNCHANGED <<calculating, pass_order, held, undo_stack, redo_stack, tracker, trail, window>>

Next == \E cell \in Addrs, text \in Texts : Edit(cell, text)

Spec == Init /\ [][Next]_vars

(***************************************************************************)
(* The dependency graph used directly: DependencyGraph of engine.py and    *)
(* DependencyTracker of app1 are given the same calls, next to edits       *)
(* through set_cell_formula.                                               *)
(***************************************************************************)
GraphTexts == {T_7, T_B1, T_A1plusC1, T_bad}

AddDependency(dependent, dependency) ==
    /\ Step
    /\ dependency_graph' = add_dependency(dependency_graph, dependent, dependency)
    /\ tracker' = tracker_add_dependency(tracker, dependent, dependency)
    /\ last' = Done("add_dependency", dependent, "none", <<>>, <<>>, {})
    /\ UNCHANGED <<sheet, dirty_cells, calculating, pass_order, held, undo_stack, redo_stack, trail, window>>

ClearDependencies(cell) ==
    /\ Step
    /\ dependency_graph' = clear_dependencies(dependency_graph, cell)
    /\ tracker' = tracker_clear_dependencies(tracker, cell)
    /\ last' = Done("clear_dependencies", cell, "none", <<>>, <<>>, {})
    /\ UNCHANGED <<sheet, dirty_cells, calculating, pass_order, held, undo_stack, redo_stack, trail, window>>

NextGraph ==
    \/ \E c \in Addrs, d \in Addrs : AddDependency(c, d)
    \/ \E c \in Addrs : ClearDependencies(c)
    \/ \E c \in Addrs, text \in GraphTexts : Edit(c, text)

SpecGraph == Init /\ [][NextGraph]_vars

(***************************************************************************)
(* The tracker of app1 asked for cycles, as test_dependencies.py does      *)
(***************************************************************************)
HasCycle(cell) ==
    /\ Step
    /\ last' = Done("has_cycle", cell,
                    IF has_cycle(tracker, cell, {}) THEN "True" ELSE "False", <<>>, <<>>, {})
    /\ UNCHANGED <<sheet, dependency_graph, dirty_cells, calculating, pass_order, held,
                   undo_stack, redo_stack, tracker, trail, window>>

NextTracker ==
    \/ \E c \in Addrs, d \in Addrs : AddDependency(c, d)
    \/ \E c \in Addrs : ClearDependencies(c)
    \/ \E c \in Addrs : HasCycle(c)

SpecTracker == Init /\ [][NextTracker]_vars

(***************************************************************************)
(* The address conversions applied to rows, columns and column letters     *)
(***************************************************************************)
\* the largest column and row converted: column 702 is AAA, row 9 prints as 10
MaxCol == 702

MaxRow == 10

\* the column letters converted: every text of one or two letters, and AAA
LetterTexts ==
    {<<a>> : a \in UpperLetters} \cup {<<a, b>> : a \in UpperLetters, b \in UpperLetters}
        \cup {<<"A", "A", "A">>}

\* address_to_string(row, col) and parse_address of its result
AddressToString(row, col) ==
    /\ Step
    /\ last.op = "init"
    /\ last' = [op |-> "address_to_string", row |-> row, col |-> col,
                letter |-> col_to_letter(col),
                address |-> address_to_string(row, col),
                back |-> letter_to_col(col_to_letter(col)),
                parsed |-> parse_address(address_to_string(row, col))]
    /\ UNCHANGED <<sheet, dependency_graph, dirty_cells, calculating, pass_order, held,
                   undo_stack, redo_stack, tracker, trail, window>>

\* letter_to_col(letter) and col_to_letter of its result
LetterToCol(letter) ==
    /\ Step
    /\ last.op = "init"
    /\ last' = [op |-> "letter_to_col", letter |-> letter, col |-> letter_to_col(letter),
                back |-> col_to_letter(letter_to_col(letter))]
    /\ UNCHANGED <<sheet, dependency_graph, dirty_cells, calculating, pass_order, held,
                   undo_stack, redo_stack, tracker, trail, window>>

NextAddress ==
    \/ \E row \in 0..MaxRow, col \in 0..MaxCol : AddressToString(row, col)
    \/ \E letter \in LetterTexts : LetterToCol(letter)

SpecAddress == Init /\ [][NextAddress]_vars

(***************************************************************************)
(* The calculation engine used directly: edits, mark_dirty and recalculate *)
(***************************************************************************)
EngineTexts == {T_7, T_A1, T_B1plus5, T_A1plusC1}

MarkDirty(cell) ==
    /\ Step
    /\ dirty_cells' = mark_dirty(dependency_graph, dirty_cells, cell)
    /\ last' = Done("mark_dirty", cell, "none", <<>>, <<>>, {})
    /\ UNCHANGED <<sheet, dependency_graph, calculating, pass_order, held, undo_stack, redo_stack,
                   tracker, trail, window>>

Recalculate ==
    /\ Step
    /\ \E r \in recalculate(sheet, dependency_graph, dirty_cells, calculating) :
          /\ sheet' = r.sheet
          /\ dirty_cells' = r.dirty
          /\ last' = Done("recalculate", A1, IF r.ran THEN "ran" ELSE "skipped",
                          <<>>, r.order, r.sorted)
    /\ UNCHANGED <<dependency_graph, calculating, pass_order, held, undo_stack, redo_stack, tracker, trail, window>>

NextEngine ==
    \/ \E c \in Addrs, text \in EngineTexts : Edit(c, text)
    \/ \E c \in Addrs : MarkDirty(c)
    \/ Recalculate

SpecEngine == Init /\ [][NextEngine]_vars

(***************************************************************************)
(* recalculate() in steps: the pass sets the calculating flag, evaluates   *)
(* the cells of calc_order one after the other, clears the dirty set and   *)
(* resets the flag.  pass_order holds the cells the pass in flight has     *)
(* still to evaluate.  Calls into the engine may arrive between the steps  *)
(* of a pass: they find calculating True.                                  *)
(***************************************************************************)
PassTexts == {T_7, T_B1, T_A1plus1}

\* recalculate() up to the loop: the guard, calculating = True and the order
StartPass ==
    /\ Step
    /\ ~calculating
    /\ dirty_cells # {}
    /\ calculating' = TRUE
    /\ pass_order' \in topological_sort(dependency_graph, dirty_cells)
    /\ last' = Done("recalculate", A1, "started", <<>>, pass_order', dirty_cells)
    /\ UNCHANGED <<sheet, dependency_graph, dirty_cells, held, undo_stack, redo_stack,
                   tracker, trail, window>>

\* one turn of the loop of recalculate(): _calculate_cell(cell_pos)
PassStep ==
    /\ calculating
    /\ pass_order # <<>>
    /\ sheet' = calculate_cell(sheet, dependency_graph, Head(pass_order))
    /\ pass_order' = Tail(pass_order)
    /\ last' = Done("_calculate_cell", Head(pass_order), "stored", <<>>, <<>>, {})
    /\ UNCHANGED <<dependency_graph, dirty_cells, calculating, held, undo_stack, redo_stack,
                   tracker, trail, steps, window>>

\* an end of recalculate() that leaves the flag set
FinishPass_keeping_flag ==
    /\ calculating
    /\ pass_order = <<>>
    /\ dirty_cells' = {}
    /\ last' = Done("recalculate", A1, "returned", <<>>, <<>>, {})
    /\ UNCHANGED <<sheet, dependency_graph, calculating, pass_order, held, undo_stack,
                   redo_stack, tracker, trail, steps, window>>

\* the end of recalculate(): dirty_cells.clear(), then calculating = False
FinishPass ==
    /\ calculating
    /\ pass_order = <<>>
    /\ dirty_cells' = {}
    /\ calculating' = FALSE
    /\ last' = Done("recalculate", A1, "returned", <<>>, <<>>, {})
    /\ UNCHANGED <<sheet, dependency_graph, pass_order, held, undo_stack, redo_stack,
                   tracker, trail, steps, window>>

\* engine.set_cell_formula(row, col, formula)
SetCellFormula(cell, formula) ==
    /\ Step
    /\ \E r \in set_cell_formula(sheet, dependency_graph, dirty_cells, calculating,
                                 cell, formula) :
          /\ sheet' = r.sheet
          /\ dependency_graph' = r.graph
          /\ dirty_cells' = r.dirty
          /\ last' = Done("set_cell_formula", cell, r.outcome, r.cycle, r.order, r.sorted)
    /\ UNCHANGED <<calculating, pass_order, held, undo_stack, redo_stack, tracker, trail, window>>

NextPass ==
    \/ \E c \in Addrs, text \in PassTexts : Edit(c, text)
    \/ \E c \in Addrs : MarkDirty(c)
    \/ StartPass
    \/ PassStep
    \/ FinishPass
    \/ \E c \in Addrs, text \in PassTexts : SetCellFormula(c, text)
    \/ Recalculate

SpecPass == Init /\ [][NextPass]_vars

\* a pass that has begun is not abandoned: the loop and the finally clause run
SpecPassFair == SpecPass /\ WF_vars(PassStep) /\ WF_vars(FinishPass)

(***************************************************************************)
(* Formulas evaluated on their own: evaluate_formula over the values of    *)
(* the sheet, for formulas put together from operand texts, an operator or *)
(* a function name.  last keeps the formula's parts, the value each        *)
(* operand has when it is evaluated alone, and the result.                 *)
(***************************************************************************)
\* evaluate_formula: parse, evaluate, '#ERROR!' for any exception of the parser
evaluate_formula(formula, cells) ==
    IF parse_formula(formula).ok THEN evaluate(parse_formula(formula).node, cells)
    ELSE Str(ERROR)

FormulaOperands == {<<"0">>, <<"1">>, <<"A", "1">>, <<"B", "1">>, <<"1", "/", "0">>}

FormulaOperators == {<<"+">>, <<"*">>, <<"=">>, <<"<", ">">>, <<"!", "=">>}

FormulaFunctions == {<<"S", "U", "M">>, <<"M", "A", "X">>}

\* the sheet and the engine after model.set_cell_raw and engine.set_cell_formula
Edited(w, cell, text) ==
    set_cell_formula(set_cell_raw(w.sheet, cell[1], cell[2], text), w.graph, w.dirty, FALSE,
                     cell, text)

\* a new sheet, or one where A1 was edited, or one where A1 and then B1 were
FormulaInit ==
    /\ \E a \in {T_7, T_A1}, b \in {T_7, T_A1, T_bad}, edits \in 0..2 :
          \E r1 \in Edited([sheet |-> NewSheet, graph |-> NewGraph, dirty |-> {}], A1, a) :
             \E r2 \in Edited(r1, B1, b) :
                /\ sheet = IF edits = 0 THEN NewSheet ELSE IF edits = 1 THEN r1.sheet
                           ELSE r2.sheet
                /\ dependency_graph = IF edits = 0 THEN NewGraph
                                      ELSE IF edits = 1 THEN r1.graph ELSE r2.graph
                /\ dirty_cells = IF edits = 0 THEN {} ELSE IF edits = 1 THEN r1.dirty
                                 ELSE r2.dirty
    /\ calculating = FALSE
    /\ pass_order = <<>>
    /\ undo_stack = <<>>
    /\ redo_stack = <<>>
    /\ tracker = NewTracker
    /\ window = NewWindow
    /\ held = <<>>
    /\ last = Done("init", A1, "none", <<>>, <<>>, {})
    /\ trail = <<>>
    /\ steps = 0

RECURSIVE Joined(_)
\* the argument texts with commas between them
Joined(texts) ==
    IF Len(texts) = 1 THEN texts[1]
    ELSE texts[1] \o <<",">> \o Joined(Tail(texts))

\* '=(a)op(b)'
BinaryFormula(operator, a, b) ==
    <<"=", "(">> \o a \o <<")">> \o operator \o <<"(">> \o b \o <<")">>

\* '=NAME(a,b,...)'
FunctionFormula(name, args) == <<"=">> \o name \o <<"(">> \o Joined(args) \o <<")">>

\* the value of every operand text evaluated as a formula of its own
Alone(texts, cells) == [i \in 1..Len(texts) |-> evaluate_formula(<<"=">> \o texts[i], cells)]

Evaluated(head, operands, formula) ==
    [op |-> "evaluate_formula", head |-> head, operands |-> operands, formula |-> formula,
     values |-> Alone(operands, sheet.cells),
     result |-> evaluate_formula(formula, sheet.cells)]

\* one formula is evaluated on the sheet
EvaluateBinary(operator, a, b) ==
    /\ Step
    /\ last.op = "init"
    /\ last' = Evaluated(operator, <<a, b>>, BinaryFormula(operator, a, b))
    /\ UNCHANGED <<sheet, dependency_graph, dirty_cells, calculating, pass_order, held,
                   undo_stack, redo_stack, tracker, trail, window>>

EvaluateFunction(name, args) ==
    /\ Step
    /\ last.op = "init"
    /\ last' = Evaluated(name, args, FunctionFormula(name, args))
    /\ UNCHANGED <<sheet, dependency_graph, dirty_cells, calculating, pass_order, held,
                   undo_stack, redo_stack, tracker, trail, window>>

NextFormula ==
    \/ \E operator \in FormulaOperators, a \in FormulaOperands, b \in FormulaOperands :
          EvaluateBinary(operator, a, b)
    \/ \E name \in FormulaFunctions, a \in FormulaOperands, b \in FormulaOperands :
          EvaluateFunction(name, <<a, b>>)
    \/ \E c \in FormulaOperands, t \in FormulaOperands, f \in FormulaOperands :
          EvaluateFunction(<<"I", "F">>, <<c, t, f>>)

SpecFormula == FormulaInit /\ [][NextFormula]_vars

(***************************************************************************)
(* Undo and redo (undo.py) and the editing path of the UI (ui.py)          *)
(***************************************************************************)
max_history == 100

\* SetCellCommand.__init__: the command and what it captures of the sheet
SetCellCommand(sh, row, col, new_raw) ==
    IF <<row, col>> \in DOMAIN sh.cells
    THEN [type |-> "SetCell", row |-> row, col |-> col, new_raw |-> new_raw,
          old_raw |-> sh.cells[<<row, col>>].raw,
          old_value |-> sh.cells[<<row, col>>].value,
          old_format |-> sh.cells[<<row, col>>].format,
          had_cell |-> TRUE]
    ELSE [type |-> "SetCell", row |-> row, col |-> col, new_raw |-> new_raw,
          old_raw |-> <<>>, old_value |-> Str(<<>>), old_format |-> EmptyFormat,
          had_cell |-> FALSE]

\* SetCellCommand.execute
SetCellCommand_execute(sh, command) ==
    set_cell_raw(sh, command.row, command.col, command.new_raw)

\* a SetCellCommand.undo that puts the old raw text back and nothing else
SetCellCommand_undo_raw_only(sh, command) ==
    IF command.had_cell
    THEN set_cell_raw(sh, command.row, command.col, command.old_raw)
    ELSE delete_cell(sh, command.row, command.col)

\* SetCellCommand.undo
SetCellCommand_undo(sh, command) ==
    IF command.had_cell
    THEN set_cell(sh, command.row, command.col, command.old_raw, command.old_value,
                  command.old_format)
    ELSE delete_cell(sh, command.row, command.col)

\* the undo stack after UndoRedoManager.execute_command appended the command
execute_command(stack, command) ==
    IF Len(stack) + 1 > max_history THEN Tail(Append(stack, command))
    ELSE Append(stack, command)

\* the latest two entries of the trail
LatestTwo(q) == IF Len(q) > 2 THEN SubSeq(q, Len(q) - 1, Len(q)) ELSE q

\* notify_observers('cell_changed', row, col): what every observer receives
cell_changed(cell) == <<[event |-> "cell_changed", cell |-> cell]>>

RECURSIVE calculated(_)
\* for cell_pos in calc_order: _calculate_cell stores the cell's value and
\* error and calls no observer
calculated(order) ==
    IF order = <<>> THEN <<>>
    ELSE <<[event |-> "stored", cell |-> Head(order)]>> \o calculated(Tail(order))

Trailed(op, cell, events) ==
    LatestTwo(Append(trail, [op |-> op, cell |-> cell, before |-> sheet, events |-> events]))

UITexts == {T_7, T_A1, T_B1, T_A1div0, T_1plus1}

\* SpreadsheetUI.set_cell_value
UISetCellValue(cell, value) ==
    LET command == SetCellCommand(sheet, cell[1], cell[2], value)
        executed == SetCellCommand_execute(sheet, command)
        outcomes ==
            IF Len(value) > 0 /\ value[1] = "="
            THEN set_cell_formula(executed, dependency_graph, dirty_cells, calculating,
                                  cell, value)
            ELSE {[sheet |-> r.sheet, graph |-> dependency_graph, dirty |-> r.dirty,
                   outcome |-> "marked", cycle |-> <<>>, order |-> r.order,
                   sorted |-> r.sorted, ran |-> r.ran]
                  : r \in recalculate(executed, dependency_graph,
                                      mark_dirty(dependency_graph, dirty_cells, cell),
                                      calculating)}
    IN  /\ Step
        /\ undo_stack' = execute_command(undo_stack, command)
        /\ redo_stack' = <<>>
        /\ \E r \in outcomes :
              /\ sheet' = r.sheet
              /\ dependency_graph' = r.graph
              /\ dirty_cells' = r.dirty
              /\ last' = Done("set_cell_value", cell, r.outcome, r.cycle, r.order, r.sorted)
              /\ trail' = Trailed("set_cell_value", cell,
                                  cell_changed(cell) \o calculated(r.order))
        /\ UNCHANGED <<calculating, pass_order, held, tracker, window>>

\* SpreadsheetUI.undo: UndoRedoManager.undo, then a redraw
UIUndo ==
    /\ Step
    /\ undo_stack # <<>>
    /\ LET command == undo_stack[Len(undo_stack)]
       IN  /\ sheet' = SetCellCommand_undo(sheet, command)
           /\ undo_stack' = SubSeq(undo_stack, 1, Len(undo_stack) - 1)
           /\ redo_stack' = Append(redo_stack, command)
           /\ last' = Done("undo", <<command.row, command.col>>, "none", <<>>, <<>>, {})
           /\ trail' = Trailed("undo", <<command.row, command.col>>,
                               cell_changed(<<command.row, command.col>>))
    /\ UNCHANGED <<dependency_graph, dirty_cells, calculating, pass_order, held, tracker, window>>

\* SpreadsheetUI.redo: UndoRedoManager.redo, then a redraw
UIRedo ==
    /\ Step
    /\ redo_stack # <<>>
    /\ LET command == redo_stack[Len(redo_stack)]
       IN  /\ sheet' = SetCellCommand_execute(sheet, command)
           /\ redo_stack' = SubSeq(redo_stack, 1, Len(redo_stack) - 1)
           /\ undo_stack' = Append(undo_stack, command)
           /\ last' = Done("redo", <<command.row, command.col>>, "none", <<>>, <<>>, {})
           /\ trail' = Trailed("redo", <<command.row, command.col>>,
                               cell_changed(<<command.row, command.col>>))
    /\ UNCHANGED <<dependency_graph, dirty_cells, calculating, pass_order, held, tracker, window>>

NextUI ==
    \/ \E c \in Addrs, value \in UITexts : UISetCellValue(c, value)
    \/ UIUndo
    \/ UIRedo

SpecUI == Init /\ [][NextUI]_vars

(***************************************************************************)
(* Rows and columns (model.py, Sheet.insert_row .. Sheet.delete_column).   *)
(* Each rebuilds the dict under the shifted keys; the cell objects move    *)
(* with their keys.                                                        *)
(***************************************************************************)
\* an insert_row that leaves the cells of the row itself in place
insert_row_cells_beyond_only(d, row) ==
    [p \in {IF q[1] > row THEN <<q[1] + 1, q[2]>> ELSE q : q \in DOMAIN d} |->
        IF p[1] > row + 1 THEN d[<<p[1] - 1, p[2]>>] ELSE d[p]]

\* new_cells of Sheet.insert_row
insert_row_cells(d, row) ==
    [p \in {IF q[1] >= row THEN <<q[1] + 1, q[2]>> ELSE q : q \in DOMAIN d} |->
        IF p[1] > row THEN d[<<p[1] - 1, p[2]>>] ELSE d[p]]

\* new_cells of Sheet.delete_row
delete_row_cells(d, row) ==
    [p \in {IF q[1] > row THEN <<q[1] - 1, q[2]>> ELSE q
            : q \in {x \in DOMAIN d : x[1] # row}} |->
        IF p[1] >= row THEN d[<<p[1] + 1, p[2]>>] ELSE d[p]]

\* new_cells of Sheet.insert_column
insert_column_cells(d, col) ==
    [p \in {IF q[2] >= col THEN <<q[1], q[2] + 1>> ELSE q : q \in DOMAIN d} |->
        IF p[2] > col THEN d[<<p[1], p[2] - 1>>] ELSE d[p]]

\* new_cells of Sheet.delete_column
delete_column_cells(d, col) ==
    [p \in {IF q[2] > col THEN <<q[1], q[2] - 1>> ELSE q
            : q \in {x \in DOMAIN d : x[2] # col}} |->
        IF p[2] >= col THEN d[<<p[1], p[2] + 1>>] ELSE d[p]]

insert_row(sh, row) ==
    [cells |-> insert_row_cells(sh.cells, row),
     max_row |-> sh.max_row + 1, max_col |-> sh.max_col]

delete_row(sh, row) ==
    [cells |-> delete_row_cells(sh.cells, row),
     max_row |-> IF sh.max_row > 0 THEN sh.max_row - 1 ELSE sh.max_row,
     max_col |-> sh.max_col]

insert_column(sh, col) ==
    [cells |-> insert_column_cells(sh.cells, col),
     max_row |-> sh.max_row, max_col |-> sh.max_col + 1]

delete_column(sh, col) ==
    [cells |-> delete_column_cells(sh.cells, col),
     max_row |-> sh.max_row,
     max_col |-> IF sh.max_col > 0 THEN sh.max_col - 1 ELSE sh.max_col]

(***************************************************************************)
(* The commands of undo.py.  A command object is an entry [id, command]:   *)
(* id stands for the identity of the object, command for its fields.       *)
(*                                                                         *)
(* The format of a cell is a dict object, and three places of the code     *)
(* share one instead of copying it: Cell.__init__ keeps a non-empty        *)
(* format_dict it is given (so SetCellCommand.undo and the undo of the     *)
(* delete commands put the stored dict itself into the new cell), and      *)
(* FormatCellCommand.undo assigns self.old_format to cell.format.          *)
(* FormatCellCommand.execute then updates the dict of the cell in place.   *)
(* held maps the address of a cell to the slot <<id, address>> of the      *)
(* command whose stored dict is the very format of that cell; a world is   *)
(* the sheet with held and the two stacks, everything one update in place  *)
(* can reach.                                                              *)
(***************************************************************************)
World(sh, h, undo, redo) ==
    [sheet |-> sh, held |-> h, undo_stack |-> undo, redo_stack |-> redo]

Entry(id, command) == [id |-> id, command |-> command]

\* InsertRowCommand.__init__
InsertRowCommand(row) == [type |-> "InsertRow", row |-> row]

\* InsertColumnCommand.__init__
InsertColumnCommand(col) == [type |-> "InsertColumn", col |-> col]

\* the entry of deleted_cells for a cell: raw, value and a copy of the format
Stored(cell) == [raw |-> cell.raw, value |-> cell.value, format |-> cell.format]

\* DeleteRowCommand.__init__
DeleteRowCommand(sh, row) ==
    [type |-> "DeleteRow", row |-> row,
     deleted_cells |-> [p \in {q \in DOMAIN sh.cells : q[1] = row} |-> Stored(sh.cells[p])]]

\* DeleteColumnCommand.__init__
DeleteColumnCommand(sh, col) ==
    [type |-> "DeleteColumn", col |-> col,
     deleted_cells |-> [p \in {q \in DOMAIN sh.cells : q[2] = col} |-> Stored(sh.cells[p])]]

\* FormatCellCommand.__init__, on the sheet its get_cell left
FormatCellCommand(sh, row, col, format_changes) ==
    [type |-> "FormatCell", row |-> row, col |-> col,
     format_changes |-> format_changes,
     old_format |-> sh.cells[<<row, col>>].format]

\* dict.update
Updated(format, changes) ==
    [k \in DOMAIN format \cup DOMAIN changes |->
        IF k \in DOMAIN changes THEN changes[k] ELSE format[k]]

\* the entry as an update of the dict in `slot` leaves it
Sharing(entry, slot, format) ==
    IF entry.id # slot[1] THEN entry
    ELSE IF entry.command.type \in {"SetCell", "FormatCell"}
    THEN [entry EXCEPT !.command.old_format = format]
    ELSE IF /\ entry.command.type \in {"DeleteRow", "DeleteColumn"}
            /\ slot[2] \in DOMAIN entry.command.deleted_cells
    THEN [entry EXCEPT !.command.deleted_cells[slot[2]].format = format]
    ELSE entry

\* a stack as an update of the dict in `slot` leaves it
SharingAll(stack, slot, format) ==
    [i \in DOMAIN stack |-> Sharing(stack[i], slot, format)]

\* cell.format.update(changes) on the cell at p, seen through every reference
\* to the dict
update_shared(w, p, format) ==
    IF p \in DOMAIN w.held
    THEN World([w.sheet EXCEPT !.cells =
                    [q \in DOMAIN @ |->
                        IF q \in DOMAIN w.held /\ w.held[q] = w.held[p]
                        THEN [@[q] EXCEPT !.format = format] ELSE @[q]]],
               w.held,
               SharingAll(w.undo_stack, w.held[p], format),
               SharingAll(w.redo_stack, w.held[p], format))
    ELSE [w EXCEPT !.sheet.cells[p].format = format]

\* FormatCellCommand.execute, after its get_cell
update_format(w, p, changes) ==
    update_shared(w, p, Updated(w.sheet.cells[p].format, changes))

\* FormatCellCommand.execute
FormatCellCommand_execute(w, command) ==
    update_format([w EXCEPT !.sheet = get_cell(@, command.row, command.col)],
                  <<command.row, command.col>>, command.format_changes)

\* FormatCellCommand.undo: cell.format = self.old_format, the dict itself
FormatCellCommand_undo(w, entry) ==
    [w EXCEPT !.sheet = [get_cell(@, entry.command.row, entry.command.col)
                            EXCEPT !.cells[<<entry.command.row, entry.command.col>>].format =
                                       entry.command.old_format],
              !.held = Put(@, <<entry.command.row, entry.command.col>>,
                           <<entry.id, <<entry.command.row, entry.command.col>>>>)]

\* held after Sheet.set_cell(p, ..., format_dict) with the dict of a command:
\* `format_dict or {}` keeps a non-empty dict and replaces an empty one
Holding(h, p, id, format_dict) ==
    IF format_dict # EmptyFormat THEN Put(h, p, <<id, p>>) ELSE Drop(h, p)

\* the loop of DeleteRowCommand.undo and DeleteColumnCommand.undo over
\* deleted_cells
RECURSIVE restore_cells(_, _, _)
restore_cells(w, id, deleted_cells) ==
    IF DOMAIN deleted_cells = {} THEN w
    ELSE LET p == CHOOSE q \in DOMAIN deleted_cells : TRUE
         IN  restore_cells(
                 [w EXCEPT !.sheet = set_cell(@, p[1], p[2], deleted_cells[p].raw,
                                              deleted_cells[p].value,
                                              deleted_cells[p].format),
                           !.held = Holding(@, p, id, deleted_cells[p].format)],
                 id, Drop(deleted_cells, p))

\* command.execute() of the six commands
execute(w, entry) ==
    CASE entry.command.type = "SetCell" ->
            [w EXCEPT !.sheet = SetCellCommand_execute(@, entry.command),
                      !.held = Drop(@, <<entry.command.row, entry.command.col>>)]
      [] entry.command.type = "FormatCell" ->
            FormatCellCommand_execute(w, entry.command)
      [] entry.command.type = "InsertRow" ->
            [w EXCEPT !.sheet = insert_row(@, entry.command.row),
                      !.held = insert_row_cells(@, entry.command.row)]
      [] entry.command.type = "DeleteRow" ->
            [w EXCEPT !.sheet = delete_row(@, entry.command.row),
                      !.held = delete_row_cells(@, entry.command.row)]
      [] entry.command.type = "InsertColumn" ->
            [w EXCEPT !.sheet = insert_column(@, entry.command.col),
                      !.held = insert_column_cells(@, entry.command.col)]
      [] entry.command.type = "DeleteColumn" ->
            [w EXCEPT !.sheet = delete_column(@, entry.command.col),
                      !.held = delete_column_cells(@, entry.command.col)]

\* command.undo() of the six commands
undo(w, entry) ==
    CASE entry.command.type = "SetCell" ->
            [w EXCEPT !.sheet = SetCellCommand_undo(@, entry.command),
                      !.held = IF entry.command.had_cell
                               THEN Holding(@, <<entry.command.row, entry.command.col>>,
                                            entry.id, entry.command.old_format)
                               ELSE Drop(@, <<entry.command.row, entry.command.col>>)]
      [] entry.command.type = "FormatCell" ->
            FormatCellCommand_undo(w, entry)
      [] entry.command.type = "InsertRow" ->
            [w EXCEPT !.sheet = delete_row(@, entry.command.row),
                      !.held = delete_row_cells(@, entry.command.row)]
      [] entry.command.type = "DeleteRow" ->
            restore_cells([w EXCEPT !.sheet = insert_row(@, entry.command.row),
                                    !.held = insert_row_cells(@, entry.command.row)],
                          entry.id, entry.command.deleted_cells)
      [] entry.command.type = "InsertColumn" ->
            [w EXCEPT !.sheet = delete_column(@, entry.command.col),
                      !.held = delete_column_cells(@, entry.command.col)]
      [] entry.command.type = "DeleteColumn" ->
            restore_cells([w EXCEPT !.sheet = insert_column(@, entry.command.col),
                                    !.held = insert_column_cells(@, entry.command.col)],
                          entry.id, entry.command.deleted_cells)

(***************************************************************************)
(* UndoRedoManager (undo.py).  ok tells whether the call of the command    *)
(* returned True: a command returns False when its try block raised, which *)
(* for these commands is an observer raising in notify_observers, after    *)
(* the sheet was changed.                                                  *)
(***************************************************************************)
\* a trim that removes the newest entry
Trimmed_dropping_newest(stack, limit) ==
    IF Len(stack) > limit THEN SubSeq(stack, 1, Len(stack) - 1) ELSE stack

\* if len(self.undo_stack) > self.max_history: self.undo_stack.pop(0)
Trimmed(stack, limit) == IF Len(stack) > limit THEN Tail(stack) ELSE stack

\* an execute_command that pushes the command whatever execute() returned
executed_command_pushing_always(w, entry, ok, limit) ==
    [w EXCEPT !.undo_stack = Trimmed(Append(@, entry), limit),
              !.redo_stack = <<>>]

\* UndoRedoManager.execute_command after command.execute() ran
executed_command(w, entry, ok, limit) ==
    IF ok
    THEN [w EXCEPT !.undo_stack = Trimmed(Append(@, entry), limit),
                   !.redo_stack = <<>>]
    ELSE w

\* UndoRedoManager.execute_command of a manager built with max_history = limit
manager_execute_command(w, entry, ok, limit) ==
    executed_command(execute(w, entry), entry, ok, limit)

\* an undo that moves the command to the redo stack whatever undo() returned
undone_command_moving_always(w, ok) ==
    [w EXCEPT !.undo_stack = SubSeq(@, 1, Len(@) - 1),
              !.redo_stack = Append(@, w.undo_stack[Len(w.undo_stack)])]

\* UndoRedoManager.undo after command.undo() ran: the command moves to the
\* redo stack, or goes back where it was
undone_command(w, ok) ==
    IF ok
    THEN [w EXCEPT !.undo_stack = SubSeq(@, 1, Len(@) - 1),
                   !.redo_stack = Append(@, w.undo_stack[Len(w.undo_stack)])]
    ELSE w

\* UndoRedoManager.undo
manager_undo(w, ok) ==
    IF w.undo_stack = <<>> THEN w
    ELSE undone_command(undo(w, w.undo_stack[Len(w.undo_stack)]), ok)

\* UndoRedoManager.redo after command.execute() ran; the undo stack is not
\* trimmed here
redone_command(w, ok) ==
    IF ok
    THEN [w EXCEPT !.redo_stack = SubSeq(@, 1, Len(@) - 1),
                   !.undo_stack = Append(@, w.redo_stack[Len(w.redo_stack)])]
    ELSE w

\* UndoRedoManager.redo
manager_redo(w, ok) ==
    IF w.redo_stack = <<>> THEN w
    ELSE redone_command(execute(w, w.redo_stack[Len(w.redo_stack)]), ok)

(***************************************************************************)
(* MacroCommand (undo.py)                                                  *)
(***************************************************************************)
\* the rollback of MacroCommand.execute: for cmd in reversed(executed): cmd.undo()
RECURSIVE rollback(_, _)
rollback(w, executed) ==
    IF executed = <<>> THEN w
    ELSE rollback(undo(w, executed[Len(executed)]),
                  SubSeq(executed, 1, Len(executed) - 1))

\* MacroCommand.execute: oks[i] tells whether the i-th child returns True
RECURSIVE MacroCommand_execute(_, _, _, _)
MacroCommand_execute(w, commands, oks, executed) ==
    IF commands = <<>> THEN [world |-> w, returned |-> TRUE]
    ELSE IF Head(oks)
    THEN MacroCommand_execute(execute(w, Head(commands)), Tail(commands), Tail(oks),
                              Append(executed, Head(commands)))
    ELSE [world |-> rollback(execute(w, Head(commands)), executed), returned |-> FALSE]

(***************************************************************************)
(* The command log: commands built on the current sheet and run through a  *)
(* manager, as the handlers of ui.py do (insert_row_above, toggle_bold,    *)
(* ...), on a model with no observer, so that no command fails.  A request *)
(* names the constructor and its arguments.  trail keeps every operation   *)
(* with the sheet and the stacks before it.                                *)
(***************************************************************************)
\* UndoRedoManager(max_history): the bound the manager of the log is built with
HistoryLimit == 2

SetCellRequest(p, raw) ==
    [type |-> "SetCell", row |-> p[1], col |-> p[2], new_raw |-> raw]

FormatCellRequest(p, changes) ==
    [type |-> "FormatCell", row |-> p[1], col |-> p[2], format_changes |-> changes]

LineRequest(type, line) == [type |-> type, line |-> line]

\* the sheet after the constructor of the requested command: only
\* FormatCellCommand.__init__ touches it, through get_cell
Constructing(sh, request) ==
    IF request.type = "FormatCell" THEN get_cell(sh, request.row, request.col) ELSE sh

\* the command the constructor returns
Construct(sh, request) ==
    CASE request.type = "SetCell" ->
            SetCellCommand(sh, request.row, request.col, request.new_raw)
      [] request.type = "FormatCell" ->
            FormatCellCommand(get_cell(sh, request.row, request.col),
                              request.row, request.col, request.format_changes)
      [] request.type = "InsertRow" -> InsertRowCommand(request.line)
      [] request.type = "DeleteRow" -> DeleteRowCommand(sh, request.line)
      [] request.type = "InsertColumn" -> InsertColumnCommand(request.line)
      [] request.type = "DeleteColumn" -> DeleteColumnCommand(sh, request.line)

\* the commands of a list, constructed one after the other; the i-th gets
\* the identity first - i
RECURSIVE construct_all(_, _, _, _)
construct_all(sh, requests, first, entries) ==
    IF requests = <<>> THEN [sheet |-> sh, entries |-> entries]
    ELSE construct_all(Constructing(sh, Head(requests)), Tail(requests), first - 1,
                       Append(entries, Entry(first - 1, Construct(sh, Head(requests)))))

NoCommand == Entry(0, [type |-> "none"])

Recorded(op, entry, returned, before) ==
    Append(trail, [op |-> op, entry |-> entry, returned |-> returned, before |-> before,
                   undo_before |-> undo_stack, redo_before |-> redo_stack])

Returned(op, returned) ==
    Done(op, <<>>, IF returned THEN "true" ELSE "false", <<>>, <<>>, {})

Becomes(w) ==
    /\ sheet' = w.sheet
    /\ held' = w.held
    /\ undo_stack' = w.undo_stack
    /\ redo_stack' = w.redo_stack

LogCells == {<<0, 1>>, <<1, 0>>}

Lines == {0, 1}

Bold == [bold |-> TRUE]

Precision == [precision |-> 2]

LogRequests ==
    {SetCellRequest(p, T_7) : p \in LogCells}
    \cup {FormatCellRequest(p, changes) : p \in LogCells, changes \in {Bold, Precision}}
    \cup {LineRequest(type, line)
          : type \in {"InsertRow", "DeleteRow", "InsertColumn", "DeleteColumn"},
            line \in Lines}

\* manager.execute_command(Command(model, ...))
LogExecute(request, ok) ==
    /\ Step
    /\ Becomes(manager_execute_command(
                   World(Constructing(sheet, request), held, undo_stack, redo_stack),
                   Entry(steps + 1, Construct(sheet, request)), ok, HistoryLimit))
    /\ last' = Returned("execute", ok)
    /\ trail' = Recorded("execute", Entry(steps + 1, Construct(sheet, request)), ok,
                         Constructing(sheet, request))
    /\ UNCHANGED <<dependency_graph, dirty_cells, calculating, pass_order, tracker, window>>

\* manager.undo()
LogUndo(ok) ==
    /\ Step
    /\ Becomes(manager_undo(World(sheet, held, undo_stack, redo_stack), ok))
    /\ last' = Returned("undo", undo_stack # <<>> /\ ok)
    /\ trail' = Recorded("undo",
                         IF undo_stack = <<>> THEN NoCommand
                         ELSE undo_stack[Len(undo_stack)],
                         undo_stack # <<>> /\ ok, sheet)
    /\ UNCHANGED <<dependency_graph, dirty_cells, calculating, pass_order, tracker, window>>

\* manager.redo()
LogRedo(ok) ==
    /\ Step
    /\ Becomes(manager_redo(World(sheet, held, undo_stack, redo_stack), ok))
    /\ last' = Returned("redo", redo_stack # <<>> /\ ok)
    /\ trail' = Recorded("redo",
                         IF redo_stack = <<>> THEN NoCommand
                         ELSE redo_stack[Len(redo_stack)],
                         redo_stack # <<>> /\ ok, sheet)
    /\ UNCHANGED <<dependency_graph, dirty_cells, calculating, pass_order, tracker, window>>

\* model.set_cell_raw and engine.set_cell_formula on a cell, outside the log
LogEdit(cell, text) ==
    /\ Step
    /\ \E r \in set_cell_formula(set_cell_raw(sheet, cell[1], cell[2], text),
                                 dependency_graph, dirty_cells, calculating, cell, text) :
          /\ sheet' = r.sheet
          /\ dependency_graph' = r.graph
          /\ dirty_cells' = r.dirty
    /\ held' = Drop(held, cell)
    /\ last' = Returned("edit", TRUE)
    /\ trail' = Recorded("edit", NoCommand, TRUE, sheet)
    /\ UNCHANGED <<calculating, pass_order, undo_stack, redo_stack, tracker, window>>

NextLog ==
    \/ \E request \in LogRequests : LogExecute(request, TRUE)
    \/ LogUndo(TRUE)
    \/ LogRedo(TRUE)
    \/ LogEdit(B1, T_A1div0)

SpecLog == Init /\ [][NextLog]_vars

(***************************************************************************)
(* Serialization (model.py, to_dict and from_dict) on the sheets the log   *)
(* and the engine build.  The name of a sheet is "Sheet1" from             *)
(* Sheet.__init__ on; nothing but from_dict assigns it.                    *)
(***************************************************************************)
SheetName == <<"S", "h", "e", "e", "t", "1">>

\* f"{row},{col}"
pos_str(row, col) == IntToDigits(row) \o <<",">> \o IntToDigits(col)

\* row, col = map(int, pos_str.split(','))
parse_pos(key) ==
    LET comma == CHOOSE i \in 1..Len(key) : key[i] = ","
    IN  <<DigitsToInt(SubSeq(key, 1, comma - 1)), DigitsToInt(SubSeq(key, comma + 1, Len(key)))>>

\* Cell.to_dict
Cell_to_dict(cell) ==
    [raw |-> cell.raw, value |-> cell.value, format |-> cell.format, error |-> cell.error]

\* a Cell.from_dict that leaves error as __init__ set it
Cell_from_dict_without_error(data) == Cell(data.raw, data.value, data.format)

\* Cell.from_dict
Cell_from_dict(data) ==
    [Cell(data.raw, data.value, data.format) EXCEPT !.error = data.error]

\* SpreadsheetModel.to_dict
to_dict(sh) ==
    [sheet_name |-> SheetName,
     cells |-> [key \in {pos_str(p[1], p[2]) : p \in DOMAIN sh.cells} |->
                  Cell_to_dict(sh.cells[CHOOSE p \in DOMAIN sh.cells :
                                           pos_str(p[1], p[2]) = key])],
     max_row |-> sh.max_row,
     max_col |-> sh.max_col]

\* SpreadsheetModel.from_dict: the sheet it builds, with its name
from_dict(data) ==
    [name |-> data.sheet_name,
     cells |-> [p \in {parse_pos(key) : key \in DOMAIN data.cells} |->
                  Cell_from_dict(data.cells[CHOOSE key \in DOMAIN data.cells :
                                               parse_pos(key) = p])],
     max_row |-> data.max_row,
     max_col |-> data.max_col]

\* model.from_dict(model.to_dict()): the new cells have the format dicts of
\* the old ones, an empty dict excepted, which `format_dict or {}` replaces
ToDictFromDict ==
    /\ Step
    /\ sheet' = [cells |-> from_dict(to_dict(sheet)).cells,
                 max_row |-> from_dict(to_dict(sheet)).max_row,
                 max_col |-> from_dict(to_dict(sheet)).max_col]
    /\ held' = [p \in {q \in DOMAIN held : /\ q \in DOMAIN sheet'.cells
                                            /\ sheet'.cells[q].format # EmptyFormat} |->
                   held[p]]
    /\ last' = [op |-> "from_dict", data |-> to_dict(sheet),
                name |-> from_dict(to_dict(sheet)).name, before |-> sheet]
    /\ trail' = Recorded("from_dict", NoCommand, TRUE, sheet)
    /\ UNCHANGED <<dependency_graph, dirty_cells, calculating, pass_order, undo_stack,
                   redo_stack, tracker, window>>

StorageRequests ==
    {SetCellRequest(<<1, 0>>, T_7), FormatCellRequest(<<1, 0>>, Bold),
     FormatCellRequest(B1, Precision), LineRequest("InsertRow", 0)}

NextStorage ==
    \/ \E request \in StorageRequests : LogExecute(request, TRUE)
    \/ LogUndo(TRUE)
    \/ LogEdit(B1, T_A1div0)
    \/ ToDictFromDict

SpecStorage == Init /\ [][NextStorage]_vars

(***************************************************************************)
(* The same log on a model whose observer may raise, so that execute() and *)
(* undo() of a command may return False, and macros run on that model.     *)
(***************************************************************************)
FailingRequests == {SetCellRequest(A1, T_7), FormatCellRequest(A1, Bold)}

Macros ==
    {<<SetCellRequest(A1, T_7), SetCellRequest(B1, T_7)>>,
     <<LineRequest("DeleteRow", 0), SetCellRequest(A1, T_7)>>}

\* MacroCommand(commands, description).execute(); the child `failing` returns
\* False, none does when failing = 0
MacroExecute(requests, failing) ==
    LET built == construct_all(sheet, requests, 0, <<>>)
        result == MacroCommand_execute(
                      World(built.sheet, held, undo_stack, redo_stack), built.entries,
                      [i \in 1..Len(requests) |-> i # failing], <<>>)
    IN  /\ Step
        /\ sheet' = result.world.sheet
        /\ held' = [p \in {q \in DOMAIN result.world.held : result.world.held[q][1] > 0}
                       |-> result.world.held[p]]
        /\ undo_stack' = result.world.undo_stack
        /\ redo_stack' = result.world.redo_stack
        /\ last' = Returned("macro", result.returned)
        /\ trail' = Recorded("macro",
                             Entry(0, [type |-> "Macro", commands |-> built.entries,
                                       failing |-> failing]),
                             result.returned, built.sheet)
        /\ UNCHANGED <<dependency_graph, dirty_cells, calculating, pass_order, tracker, window>>

NextFailing ==
    \/ \E request \in FailingRequests, ok \in BOOLEAN : LogExecute(request, ok)
    \/ \E ok \in BOOLEAN : LogUndo(ok)
    \/ \E ok \in BOOLEAN : LogRedo(ok)
    \/ \E requests \in Macros, failing \in 0..2 : MacroExecute(requests, failing)

SpecFailing == Init /\ [][NextFailing]_vars

(***************************************************************************)
(* Notions the properties use                                              *)
(***************************************************************************)
\* the dependency cycles through c: the sequences of distinct cells from c in
\* which each cell reads the next and the last reads c
CyclesThrough(g, c) ==
    {p \in UNION {Perms(S) : S \in {S \in SUBSET Addrs : c \in S}} :
        /\ p[1] = c
        /\ \A i \in 1..Len(p) :
              p[IF i = Len(p) THEN 1 ELSE i + 1] \in g.dependencies[p[i]]}

OnCycle(g, c) == CyclesThrough(g, c) # {}

RECURSIVE ReadClosure(_, _, _)
\* the cells c reads, directly or through other cells, c included
ReadClosure(g, frontier, seen) ==
    IF frontier = {} THEN seen
    ELSE LET x == CHOOSE y \in frontier : TRUE
         IN  IF x \in seen THEN ReadClosure(g, frontier \ {x}, seen)
             ELSE ReadClosure(g, (frontier \ {x}) \cup g.dependencies[x], seen \cup {x})

ReadsFromCycle(g, c) == \E x \in ReadClosure(g, {c}, {}) : OnCycle(g, x)

CarriesCycle(sh, c) ==
    /\ c \in DOMAIN sh.cells
    /\ sh.cells[c].value = Str(CYCLE)
    /\ sh.cells[c].error = Str(CYCLE)

\* what the content of a stored cell evaluates to under the sheet
ContentValue(sh, c) ==
    LET cell == sh.cells[c]
    IN  IF is_formula(cell)
        THEN (IF parse_formula(cell.raw).ok THEN evaluate(parse_formula(cell.raw).node, sh.cells)
              ELSE Str(ERROR))
        ELSE IF LooksNumeric(cell.raw) /\ FloatOk(cell.raw) THEN Num(FloatOf(cell.raw))
        ELSE Str(cell.raw)

(***************************************************************************)
(* C1                                                                      *)
(***************************************************************************)
\* C1: after any sequence of edits (set_cell_raw, then set_cell_formula), every
\* formula cell that is not on a dependency cycle holds the value its cached
\* AST evaluates to under the current cell values, and its error is set exactly
\* when that value is an error sentinel.
C1_NonCycleCellsHoldTheirEvaluation ==
    last.op = "edit" =>
        \A c \in DOMAIN sheet.cells :
            (/\ is_formula(sheet.cells[c])
             /\ c \in DOMAIN dependency_graph.ast_cache
             /\ ~OnCycle(dependency_graph, c))
            => LET result == evaluate(dependency_graph.ast_cache[c], sheet.cells)
               IN  /\ sheet.cells[c].value = result
                   /\ (sheet.cells[c].error # NoneV) = IsErrorValue(result)

(***************************************************************************)
(* C2                                                                      *)
(***************************************************************************)
\* the two maps of the engine's graph mirror each other
Consistent(g) ==
    \A c \in Addrs, d \in Addrs : (d \in g.dependencies[c]) <=> (c \in g.dependents[d])

\* the two dicts of the app1 tracker mirror each other
TrackerConsistent(t) ==
    \A c \in Addrs, d \in Addrs :
        (d \in GetOrEmpty(t.dependencies, c)) <=> (c \in GetOrEmpty(t.dependents, d))

ClearStep(c) == last'.op = "clear_dependencies" /\ last'.cell = c

\* C2: after any sequence of add_dependency, clear_dependencies and
\* set_cell_formula, d is in dependencies[c] exactly when c is in dependents[d];
\* clear_dependencies(c) leaves c in no dependents set, leaves dependencies[c]
\* empty and changes the dependencies of no other cell.  The same holds of the
\* two dicts of the app1 DependencyTracker.
C2_MapsMirrorEachOther ==
    [][/\ Consistent(dependency_graph')
       /\ TrackerConsistent(tracker')
       /\ \A c \in Addrs :
             ClearStep(c) =>
                /\ \A d \in Addrs : c \notin dependency_graph'.dependents[d]
                /\ dependency_graph'.dependencies[c] = {}
                /\ \A d \in Addrs \ {c} :
                      dependency_graph'.dependencies[d] = dependency_graph.dependencies[d]
                /\ \A d \in Addrs : c \notin GetOrEmpty(tracker'.dependents, d)
                /\ GetOrEmpty(tracker'.dependencies, c) = {}
                /\ \A d \in Addrs \ {c} :
                      GetOrEmpty(tracker'.dependencies, d) = GetOrEmpty(tracker.dependencies, d)]_vars

\* clear_dependencies has just removed the cleared cell from a dependents set
\* (the tracker keeps the emptied set under its key) while another cell still
\* has dependencies
C2_Witness ==
    /\ last.op = "clear_dependencies"
    /\ \E d \in DOMAIN tracker.dependents : tracker.dependents[d] = {}
    /\ \E x \in Addrs \ {last.cell} : dependency_graph.dependencies[x] # {}
    /\ dependency_graph.dependencies[last.cell] = {}

(***************************************************************************)
(* C3                                                                      *)
(***************************************************************************)
\* the cell at c is stored in both sheets with the same raw, value and error, or
\* in neither
SameCell(sh1, sh2, c) ==
    /\ (c \in DOMAIN sh1.cells) = (c \in DOMAIN sh2.cells)
    /\ c \in DOMAIN sh1.cells =>
          /\ sh1.cells[c].raw = sh2.cells[c].raw
          /\ sh1.cells[c].value = sh2.cells[c].value
          /\ sh1.cells[c].error = sh2.cells[c].error

\* C3: after an edit made through the UI (SetCellCommand through
\* execute_command, then the engine update), undo() returns the edited cell and
\* every cell that reads it, directly or through other cells, to the raw, value
\* and error it had before the edit.
C3_UndoRestoresEditedCellAndDependents ==
    (/\ Len(trail) = 2
     /\ trail[1].op = "set_cell_value"
     /\ trail[2].op = "undo")
    => \A c \in mark_closure(dependency_graph, {trail[1].cell}, {}) :
          SameCell(sheet, trail[1].before, c)

(***************************************************************************)
(* C4                                                                      *)
(***************************************************************************)
\* C4: undo() followed by redo() returns the sheet (the addresses stored, each
\* cell's raw, value, format and error, max_row and max_col) to what it was
\* before the undo(), and redo() followed by undo() to what it was before the
\* redo().
C4_UndoRedoRoundTrip ==
    (/\ Len(trail) = 2
     /\ \/ trail[1].op = "undo" /\ trail[2].op = "redo"
        \/ trail[1].op = "redo" /\ trail[2].op = "undo")
    => sheet = trail[1].before

(***************************************************************************)
(* C5                                                                      *)
(***************************************************************************)
\* C5: when set_cell_formula finds a cycle from the edited cell (a formula that
\* reads its own cell included), every cell of the returned cycle ends with
\* value = error = '#CYCLE!', the edges of the cycle are still in both maps of
\* the graph, and no recalculation pass was run.
C5_CycleMarkedGraphKeptNoRecalc ==
    (last.op = "edit" /\ last.outcome = "cycle") =>
        /\ last.cycle # <<>>
        /\ \A i \in 1..Len(last.cycle) :
              LET x == last.cycle[i]
                  y == last.cycle[IF i = Len(last.cycle) THEN 1 ELSE i + 1]
              IN  /\ CarriesCycle(sheet, x)
                  /\ y \in dependency_graph.dependents[x]
                  /\ x \in dependency_graph.dependencies[y]
        /\ last.order = <<>>
        /\ last.sorted = {}

\* an edit has just closed a cycle of three cells
C5_Witness ==
    /\ last.op = "edit" /\ last.outcome = "cycle"
    /\ Len(last.cycle) = 3
    /\ last.cell \in SeqRange(last.cycle)

(***************************************************************************)
(* C6                                                                      *)
(***************************************************************************)
\* the text now stored in c is a non-formula, or a formula that parses and
\* reads no cell of K
BreaksCycle(sh, c, K) ==
    \/ ~is_formula(sh.cells[c])
    \/ /\ parse_formula(sh.cells[c].raw).ok
       /\ extract_dependencies_from_ast(parse_formula(sh.cells[c].raw).node) \cap K = {}

\* C6: for a dependency cycle whose members all carry '#CYCLE!', re-assigning
\* one member (set_cell_raw, then set_cell_formula) to a non-formula, or to a
\* formula that no longer reads a member of the cycle, leaves every former
\* member without '#CYCLE!' and with the value its content evaluates to under
\* the new sheet.  Stated for the edits after which no former member lies on
\* a cycle or reads from one, where nothing else can account for '#CYCLE!'.
C6_BrokenCycleRecomputes ==
    [][\A c \in Addrs : \A p \in CyclesThrough(dependency_graph, c) :
          LET K == SeqRange(p)
          IN  (/\ last'.op = "edit" /\ last'.cell = c
               /\ \A x \in K : CarriesCycle(sheet, x)
               /\ BreaksCycle(sheet', c, K)
               /\ \A x \in K : ~ReadsFromCycle(dependency_graph', x))
              => \A x \in K :
                    /\ x \in DOMAIN sheet'.cells
                    /\ sheet'.cells[x].value # Str(CYCLE)
                    /\ sheet'.cells[x].error # Str(CYCLE)
                    /\ sheet'.cells[x].value = ContentValue(sheet', x)]_vars

(***************************************************************************)
(* C7                                                                      *)
(***************************************************************************)
\* C7: in a recalculation pass, for cells x and y of the dirty set with y in
\* dependencies[x], if x was evaluated then y was evaluated earlier in the pass.
C7_DependenciesEvaluatedFirst ==
    \A x \in last.sorted, y \in last.sorted :
        (y \in dependency_graph.dependencies[x] /\ x \in SeqRange(last.order))
        => /\ y \in SeqRange(last.order)
           /\ IndexOf(last.order, y) < IndexOf(last.order, x)

\* recalculate() has just evaluated three dirty cells, one of which reads another
C7_Witness ==
    /\ last.op = "recalculate"
    /\ Len(last.order) = 3
    /\ \E x \in last.sorted : \E y \in last.sorted \ {x} :
          y \in dependency_graph.dependencies[x]

(***************************************************************************)
(* C8                                                                      *)
(***************************************************************************)
\* C8: when recalculate() returns (called directly, or by set_cell_formula after
\* it marked the cell dirty) the dirty set is empty, and a recalculate() that
\* directly follows a recalculate() changes no cell.
C8_RecalculateEmptiesDirtySet ==
    [][/\ (last'.op = "recalculate" \/ (last'.op = "edit" /\ last'.outcome = "marked"))
             => dirty_cells' = {}
       /\ (last.op = "recalculate" /\ last'.op = "recalculate") => sheet' = sheet]_vars

\* recalculate() has just run a pass over two or more dirty cells
C8_Witness ==
    /\ last.op = "recalculate"
    /\ last.outcome = "ran"
    /\ Cardinality(last.sorted) >= 2
    /\ dirty_cells = {}

(***************************************************************************)
(* C9                                                                      *)
(***************************************************************************)
\* the cells other than c are stored with the same value and error as before
OthersUntouched(c) ==
    /\ DOMAIN sheet'.cells \ {c} = DOMAIN sheet.cells \ {c}
    /\ \A d \in DOMAIN sheet.cells \ {c} :
          /\ sheet'.cells[d].value = sheet.cells[d].value
          /\ sheet'.cells[d].error = sheet.cells[d].error

ParseFailureStep(c) == last'.op = "edit" /\ last'.cell = c /\ last'.outcome = "error"

\* C9 as stated: when set_cell_formula(c, f) is called with a text that starts
\* with '=' and fails to parse, c ends with error = value = '#ERROR!', the dirty
\* set and the value and error of every other cell are unchanged, and
\* dependents[c] is the same set as before the call.
C9_Original ==
    [][\A c \in Addrs :
          ParseFailureStep(c) =>
              /\ sheet'.cells[c].value = Str(ERROR)
              /\ sheet'.cells[c].error = Str(ERROR)
              /\ dirty_cells' = dirty_cells
              /\ OthersUntouched(c)
              /\ dependency_graph'.dependents[c] = dependency_graph.dependents[c]]_vars

\* C9 as amended: as C9, except that dependents[c] is the set it was before the
\* call without c itself (clear_dependencies removes c from the dependents of
\* the cells its old formula read, and c is one of them when that formula read
\* its own cell); the dependents' own edges to c stay.
C9_ParseFailureKeepsOtherDependents ==
    [][\A c \in Addrs :
          ParseFailureStep(c) =>
              /\ sheet'.cells[c].value = Str(ERROR)
              /\ sheet'.cells[c].error = Str(ERROR)
              /\ dirty_cells' = dirty_cells
              /\ OthersUntouched(c)
              /\ dependency_graph'.dependents[c] = dependency_graph.dependents[c] \ {c}
              /\ \A d \in Addrs \ {c} :
                    dependency_graph'.dependencies[d] = dependency_graph.dependencies[d]]_vars

\* a formula that fails to parse was just stored in a cell that another cell reads
C9_Witness ==
    /\ last.op = "edit" /\ last.outcome = "error"
    /\ dependency_graph.dependents[last.cell] \ {last.cell} # {}
    /\ sheet.cells[last.cell].error = Str(ERROR)

(***************************************************************************)
(* C10                                                                     *)
(***************************************************************************)
\* the AST reads cell b through a cell reference that is the operand of a unary
\* operator, the left operand of a binary operator whose other operand is a
\* number, or the only argument of a function
ReadsThroughOperator(ast, b) ==
    LET ref == CellRefNode(b[1], b[2])
    IN  \/ ast.type = "UnaryOp" /\ ast.operand = ref
        \/ ast.type = "BinaryOp" /\ ast.left = ref /\ ast.right.type = "Number"
        \/ ast.type = "Function" /\ ast.args = <<ref>>

\* C10: a formula cell that evaluated to an error sentinel holds it as value and
\* as error, and a formula that reads that cell through a cell reference inside
\* a unary operator, a binary arithmetic or comparison operator or a function
\* argument, and was evaluated in the latest recalculation pass, holds the same
\* sentinel.
C10_ErrorPropagatesThroughOperators ==
    (last.op = "edit" /\ last.outcome = "marked") =>
        /\ \A b \in SeqRange(last.order) :
              (/\ is_formula(sheet.cells[b])
               /\ b \in DOMAIN dependency_graph.ast_cache
               /\ IsErrorValue(evaluate(dependency_graph.ast_cache[b], sheet.cells)))
              => /\ sheet.cells[b].value = evaluate(dependency_graph.ast_cache[b], sheet.cells)
                 /\ sheet.cells[b].error = sheet.cells[b].value
        /\ \A b \in DOMAIN sheet.cells : \A x \in SeqRange(last.order) :
              (/\ is_formula(sheet.cells[b])
               /\ b \in DOMAIN dependency_graph.ast_cache
               /\ ~OnCycle(dependency_graph, b)
               /\ IsErrorValue(sheet.cells[b].value)
               /\ sheet.cells[b].value = evaluate(dependency_graph.ast_cache[b], sheet.cells)
               /\ sheet.cells[b].error = sheet.cells[b].value
               /\ x \in DOMAIN dependency_graph.ast_cache
               /\ ReadsThroughOperator(dependency_graph.ast_cache[x], b))
              => /\ sheet.cells[x].value = sheet.cells[b].value
                 /\ sheet.cells[x].error = sheet.cells[b].value

(***************************************************************************)
(* C11                                                                     *)
(***************************************************************************)
\* the latest two operations of the log were execute_command of a command of
\* one of the types, returning True, and then undo(), returning True
ExecutedThenUndone(types) ==
    /\ Len(trail) >= 2
    /\ trail[Len(trail) - 1].op = "execute"
    /\ trail[Len(trail) - 1].returned
    /\ trail[Len(trail) - 1].entry.command.type \in types
    /\ trail[Len(trail)].op = "undo"
    /\ trail[Len(trail)].returned
    /\ trail[Len(trail)].entry.id = trail[Len(trail) - 1].entry.id

\* the cells before the execute() of the command executed and then undone
CellsBefore == trail[Len(trail) - 1].before.cells

\* the address of the cell command executed and then undone
Target ==
    <<trail[Len(trail) - 1].entry.command.row, trail[Len(trail) - 1].entry.command.col>>

\* C11: for a SetCellCommand built and immediately executed, undo() leaves the
\* target address as it was before execute(): absent if it was absent, otherwise
\* present with the prior raw, value and format; no other address changes.
C11_SetCellUndoRestoresTarget ==
    ExecutedThenUndone({"SetCell"}) =>
        /\ (Target \in DOMAIN sheet.cells) = (Target \in DOMAIN CellsBefore)
        /\ Target \in DOMAIN CellsBefore =>
              /\ sheet.cells[Target].raw = CellsBefore[Target].raw
              /\ sheet.cells[Target].value = CellsBefore[Target].value
              /\ sheet.cells[Target].format = CellsBefore[Target].format
        /\ DOMAIN sheet.cells \ {Target} = DOMAIN CellsBefore \ {Target}
        /\ \A p \in DOMAIN CellsBefore \ {Target} : sheet.cells[p] = CellsBefore[p]

\* a SetCellCommand on a cell that had a format and a neighbour was executed and
\* undone
C11_Witness ==
    /\ ExecutedThenUndone({"SetCell"})
    /\ Target \in DOMAIN CellsBefore
    /\ CellsBefore[Target].format # EmptyFormat
    /\ DOMAIN CellsBefore # {Target}

(***************************************************************************)
(* C12                                                                     *)
(***************************************************************************)
\* the operations of the log from the i-th on are execute_command of a
\* FormatCellCommand and then undo(), redo(), undo(), ... of that command,
\* the last being an undo()
FormatAlternation(i) ==
    /\ i < Len(trail)
    /\ trail[i].op = "execute"
    /\ trail[i].entry.command.type = "FormatCell"
    /\ \A j \in (i + 1)..Len(trail) :
          /\ trail[j].entry.id = trail[i].entry.id
          /\ trail[j].returned
          /\ trail[j].op = IF (j - i) % 2 = 1 THEN "undo" ELSE "redo"
    /\ trail[Len(trail)].op = "undo"

\* C12: after an alternation execute, undo, redo, undo, ... of a
\* FormatCellCommand through the manager that ends with an undo, the format map
\* of the target cell equals the map the cell had immediately before the command
\* was first executed.
C12_FormatUndoRestoresMap ==
    \A i \in 1..Len(trail) :
        FormatAlternation(i) =>
            /\ <<trail[i].entry.command.row, trail[i].entry.command.col>> \in DOMAIN sheet.cells
            /\ sheet.cells[<<trail[i].entry.command.row, trail[i].entry.command.col>>].format
                  = trail[i].before.cells[<<trail[i].entry.command.row,
                                            trail[i].entry.command.col>>].format

(***************************************************************************)
(* C13                                                                     *)
(***************************************************************************)
\* C13: for a DeleteRowCommand or DeleteColumnCommand built and immediately
\* executed, undo() restores the cell map to the one before execute(): every
\* cell of the removed line is back with the same raw, value, format and error,
\* and every other cell is back at its address.
C13_DeleteUndoRestoresCellMap ==
    ExecutedThenUndone({"DeleteRow", "DeleteColumn"}) => sheet.cells = CellsBefore

(***************************************************************************)
(* C14                                                                     *)
(***************************************************************************)
\* the latest operation of the log was execute_command of a command of the
\* type, returning True
Executed(type) ==
    /\ Len(trail) >= 1
    /\ trail[Len(trail)].op = "execute"
    /\ trail[Len(trail)].returned
    /\ trail[Len(trail)].entry.command.type = type

\* the address a cell at p has after a line was inserted at `line` on the axis
\* (1 for rows, 2 for columns)
Moved(p, axis, line) ==
    IF p[axis] >= line THEN [p EXCEPT ![axis] = @ + 1] ELSE p

\* cells is the map `before` with every cell at or beyond the line moved by one
Shifted(cells, before, axis, line) ==
    /\ DOMAIN cells = {Moved(p, axis, line) : p \in DOMAIN before}
    /\ \A p \in DOMAIN before : cells[Moved(p, axis, line)] = before[p]

\* C14: InsertRowCommand(r) and InsertColumnCommand(c) move, on execute(), every
\* cell whose index on the axis is at or beyond r (c) by one and leave the other
\* cells in place; undo() directly afterwards returns the cell map to the map
\* before execute().
C14_InsertShiftsAndUndoRestores ==
    /\ Executed("InsertRow") =>
          Shifted(sheet.cells, trail[Len(trail)].before.cells, 1,
                  trail[Len(trail)].entry.command.row)
    /\ Executed("InsertColumn") =>
          Shifted(sheet.cells, trail[Len(trail)].before.cells, 2,
                  trail[Len(trail)].entry.command.col)
    /\ ExecutedThenUndone({"InsertRow", "InsertColumn"}) => sheet.cells = CellsBefore

\* an InsertRowCommand that moved one cell and left another in place was
\* executed and undone
C14_Witness ==
    /\ ExecutedThenUndone({"InsertRow"})
    /\ \E p \in DOMAIN CellsBefore : p[1] >= trail[Len(trail) - 1].entry.command.row
    /\ \E p \in DOMAIN CellsBefore : p[1] < trail[Len(trail) - 1].entry.command.row

(***************************************************************************)
(* C15                                                                     *)
(***************************************************************************)
\* C15: when a child of a MacroCommand returns False from execute(), the
\* children that had succeeded are undone in reverse order, execute() of the
\* macro returns False, and the cells of the sheet are the ones it had before the
\* macro started.
C15_FailedMacroLeavesSheetAsBefore ==
    (/\ Len(trail) >= 1
     /\ trail[Len(trail)].op = "macro"
     /\ trail[Len(trail)].entry.command.failing
           \in 1..Len(trail[Len(trail)].entry.command.commands))
    => /\ ~trail[Len(trail)].returned
       /\ sheet.cells = trail[Len(trail)].before.cells

(***************************************************************************)
(* C16                                                                     *)
(***************************************************************************)
\* the command objects of a stack, bottom first
Ids(stack) == [i \in DOMAIN stack |-> stack[i].id]

\* the latest operation of the log was an execute_command that returned True
ExecutedCommand ==
    /\ Len(trail) >= 1
    /\ trail[Len(trail)].op = "execute"
    /\ trail[Len(trail)].returned

\* C16: after any sequence of execute_command, undo and redo the undo stack holds
\* at most max_history commands; when a successful execute_command would exceed
\* the bound, exactly the oldest entry is removed and the order of the remaining
\* entries is kept.
C16_UndoStackBounded ==
    /\ Len(undo_stack) <= HistoryLimit
    /\ ExecutedCommand =>
          Ids(undo_stack) =
              IF Len(trail[Len(trail)].undo_before) + 1 > HistoryLimit
              THEN Tail(Append(Ids(trail[Len(trail)].undo_before), trail[Len(trail)].entry.id))
              ELSE Append(Ids(trail[Len(trail)].undo_before), trail[Len(trail)].entry.id)

\* an execute_command on a full undo stack
C16_Witness ==
    /\ ExecutedCommand
    /\ Len(trail[Len(trail)].undo_before) = HistoryLimit

(***************************************************************************)
(* C17                                                                     *)
(***************************************************************************)
\* C17: when cmd.execute() returns True, execute_command(cmd) leaves cmd on top
\* of the undo stack and the redo stack empty; when it returns False, both stacks
\* hold the command objects they held before, in the same order.
C17_ExecuteCommandStacks ==
    (Len(trail) >= 1 /\ trail[Len(trail)].op = "execute") =>
        IF trail[Len(trail)].returned
        THEN /\ undo_stack # <<>>
             /\ undo_stack[Len(undo_stack)].id = trail[Len(trail)].entry.id
             /\ redo_stack = <<>>
        ELSE /\ Ids(undo_stack) = Ids(trail[Len(trail)].undo_before)
             /\ Ids(redo_stack) = Ids(trail[Len(trail)].redo_before)

\* an execute_command whose command returned False, with commands on both stacks
C17_Witness ==
    /\ Len(trail) >= 1
    /\ trail[Len(trail)].op = "execute"
    /\ ~trail[Len(trail)].returned
    /\ undo_stack # <<>>
    /\ redo_stack # <<>>

(***************************************************************************)
(* C18                                                                     *)
(***************************************************************************)
\* C18: when undo() pops a command whose undo() returns False, or redo() one
\* whose execute() returns False, the command is pushed back, the call returns
\* False and both stacks hold what they held before the call; undo() and redo()
\* on an empty stack return False and change nothing.
C18_FailedUndoRedoKeepStacks ==
    /\ (/\ Len(trail) >= 1
        /\ trail[Len(trail)].op \in {"undo", "redo"}
        /\ ~trail[Len(trail)].returned)
       => /\ Ids(undo_stack) = Ids(trail[Len(trail)].undo_before)
          /\ Ids(redo_stack) = Ids(trail[Len(trail)].redo_before)
    /\ (/\ Len(trail) >= 1
        /\ \/ trail[Len(trail)].op = "undo" /\ trail[Len(trail)].undo_before = <<>>
           \/ trail[Len(trail)].op = "redo" /\ trail[Len(trail)].redo_before = <<>>)
       => /\ ~trail[Len(trail)].returned
          /\ sheet = trail[Len(trail)].before
          /\ undo_stack = trail[Len(trail)].undo_before
          /\ redo_stack = trail[Len(trail)].redo_before

\* an undo() whose command returned False, with commands on both stacks
C18_Witness ==
    /\ Len(trail) >= 1
    /\ trail[Len(trail)].op = "undo"
    /\ ~trail[Len(trail)].returned
    /\ trail[Len(trail)].undo_before # <<>>
    /\ redo_stack # <<>>

(***************************************************************************)
(* C19                                                                     *)
(***************************************************************************)
\* C19: in every reachable state of the sheet an address is present in
\* Sheet.cells if and only if the raw text of its cell is non-empty (an absent
\* address stands for a cell with empty raw text).
C19_PresentIffRawNonEmpty ==
    \A p \in DOMAIN sheet.cells : sheet.cells[p].raw # <<>>

(***************************************************************************)
(* C20                                                                     *)
(***************************************************************************)
\* C20: in every reachable state of the UI, the engine and the log composed,
\* every stored cell whose raw text does not start with '=' has error = None.
C20_NonFormulaCellsHaveNoError ==
    \A p \in DOMAIN sheet.cells :
        ~is_formula(sheet.cells[p]) => sheet.cells[p].error = NoneV

(***************************************************************************)
(* C21                                                                     *)
(***************************************************************************)
\* C21: no step of set_cell, delete_cell, insert_row, delete_row,
\* insert_column or delete_column lowers Sheet.max_row or Sheet.max_col:
\* inserts and writes may raise them and deletes leave them as they are.
C21_MaxRowMaxColNeverDecrease ==
    [][/\ sheet'.max_row >= sheet.max_row
       /\ sheet'.max_col >= sheet.max_col]_vars

(***************************************************************************)
(* C22                                                                     *)
(***************************************************************************)
\* the cells whose values the cell reads, directly or through other cells
ReadBy(cell) == ReadClosure(dependency_graph, {cell}, {}) \ {cell}

\* C22: for every cell that recalculate() evaluated, observers receive a
\* cell_changed event for that cell after its new value and error were
\* stored, and that event comes after the stores of all cells of the pass
\* that the cell transitively depends on.
C22_ObserversSeeEachEvaluatedCell ==
    trail # <<>> =>
        LET events == trail[Len(trail)].events
        IN  \A i \in 1..Len(events) :
               events[i].event = "stored" =>
                  \E j \in (i + 1)..Len(events) :
                     /\ events[j].event = "cell_changed"
                     /\ events[j].cell = events[i].cell
                     /\ \A k \in (j + 1)..Len(events) :
                           ~(/\ events[k].event = "stored"
                             /\ events[k].cell \in ReadBy(events[i].cell))

(***************************************************************************)
(* C23                                                                     *)
(***************************************************************************)
\* the value and the error of every stored cell
ValuesAndErrors(sh) ==
    [p \in DOMAIN sh.cells |-> <<sh.cells[p].value, sh.cells[p].error>>]

\* the step is a call of engine.recalculate() or engine.set_cell_formula()
EngineCall ==
    \/ last'.op = "set_cell_formula"
    \/ last'.op = "recalculate" /\ last'.outcome \in {"ran", "skipped"}

\* C23: a call of recalculate() or set_cell_formula() made while calculating
\* is True starts no nested evaluation pass and leaves the dependency graph,
\* the AST cache, the dirty set and the value and error of every cell as
\* they were.
C23_CallsDuringAPassAreIgnored ==
    [][(calculating /\ EngineCall) =>
          /\ last'.order = <<>>
          /\ last'.sorted = {}
          /\ calculating' = calculating
          /\ pass_order' = pass_order
          /\ dependency_graph' = dependency_graph
          /\ dirty_cells' = dirty_cells
          /\ ValuesAndErrors(sheet') = ValuesAndErrors(sheet)]_vars

(***************************************************************************)
(* C24                                                                     *)
(***************************************************************************)
\* no cell occurs twice in the sequence
EachOnce(cells) == \A i, j \in 1..Len(cells) : cells[i] = cells[j] => i = j

\* what the latest call worked through: the cycle find_cycles returned and
\* the order topological_sort returned hold every cell at most once, and the
\* order holds cells of the sorted set only
WorkedEachCellOnce ==
    /\ EachOnce(last.cycle)
    /\ EachOnce(last.order)
    /\ \A i \in 1..Len(last.order) : last.order[i] \in last.sorted
    /\ dirty_cells \subseteq Addrs

\* a recalculate() that began a pass has returned
PassReturned == last.op = "recalculate" /\ last.outcome \in {"ran", "returned"}

\* C24: on every dependency graph, cyclic ones included, set_cell_formula()
\* and recalculate() terminate: find_cycles, mark_dirty and topological_sort
\* go through every cell a bounded number of times (the cycle and the order
\* they return hold no cell twice), a pass that has begun comes to its end,
\* and calculating is False when recalculate() has returned.
C24_EngineCallsTerminate ==
    /\ [](WorkedEachCellOnce /\ (PassReturned => ~calculating))
    /\ (calculating ~> ~calculating)

\* a pass over a graph with a cycle has returned
C24_Witness ==
    /\ last.op = "recalculate"
    /\ last.outcome = "returned"
    /\ ~calculating
    /\ \E c \in Addrs : OnCycle(dependency_graph, c)

(***************************************************************************)
(* C25                                                                     *)
(***************************************************************************)
\* the latest step evaluated IF(c, t, f)
IfEvaluated ==
    /\ last.op = "evaluate_formula"
    /\ last.head = <<"I", "F">>
    /\ Len(last.operands) = 3

\* the position of the branch IF selects for the condition value c
Selected(c) ==
    IF c.k = "bool" THEN (IF c.v THEN 2 ELSE 3)
    ELSE IF to_number(c) # Num(0) THEN 2 ELSE 3

\* C25: IF(c, t, f) yields an error sentinel only when its condition is a
\* sentinel or the branch it selects evaluates to one; a sentinel of the
\* branch not selected never becomes the result.
C25_IfPropagatesOnlySelectedBranch ==
    (IfEvaluated /\ IsErrorValue(last.result)) =>
        \/ IsErrorValue(last.values[1])
        \/ IsErrorValue(last.values[Selected(last.values[1])])

(***************************************************************************)
(* C26                                                                     *)
(***************************************************************************)
\* the positions of the operands or arguments that evaluate to an error
ErrorPositions == {i \in 1..Len(last.values) : IsErrorValue(last.values[i])}

\* C26: when two or more operands of a binary operator, or arguments of a
\* function other than IF, evaluate to errors (the error of a cell or of a
\* failing sub-expression alike), the result is the error of the leftmost of
\* them.  The operators are those the parser reads as one operator.
C26_LeftmostErrorWins ==
    (/\ last.op = "evaluate_formula"
     /\ last.head \notin {<<"I", "F">>, <<"<", ">">>, <<"!", "=">>}
     /\ Cardinality(ErrorPositions) >= 2)
    => \E i \in ErrorPositions :
          /\ \A j \in ErrorPositions : i <= j
          /\ last.result = last.values[i]

(***************************************************************************)
(* C27                                                                     *)
(***************************************************************************)
\* not x, for the boolean a comparison returns
Negation(x) == IF x.k = "bool" THEN Bool(~x.v) ELSE x

\* C27: for operands a and b that evaluate without error, '=a<>b' and
\* '=a!=b' both evaluate to the boolean negation of '=a=b'.
C27_UnequalNegatesEqual ==
    (/\ last.op = "evaluate_formula"
     /\ last.head \in {<<"<", ">">>, <<"!", "=">>}
     /\ ~IsErrorValue(last.values[1])
     /\ ~IsErrorValue(last.values[2]))
    => /\ evaluate_formula(BinaryFormula(<<"=">>, last.operands[1], last.operands[2]),
                           sheet.cells).k = "bool"
       /\ last.result =
             Negation(evaluate_formula(BinaryFormula(<<"=">>, last.operands[1],
                                                     last.operands[2]), sheet.cells))

(***************************************************************************)
(* C28                                                                     *)
(***************************************************************************)
\* the dirty cells the latest recalculate() sorted and did not evaluate
LeftOut == {c \in last.sorted : \A i \in 1..Len(last.order) : last.order[i] # c}

\* C28: a dirty cell that recalculate() leaves out of the evaluation order
\* lies on a dependency cycle, and it carries '#CYCLE!' as value and as error
\* when recalculate() has returned.
C28_LeftOutCellsAreOnCycles ==
    \A c \in LeftOut :
        /\ OnCycle(dependency_graph, c)
        /\ CarriesCycle(sheet, c)

(***************************************************************************)
(* C29                                                                     *)
(***************************************************************************)
\* the dependencies of the tracker as a graph over all cells
TrackerGraph == [dependencies |-> [c \in Addrs |-> GetOrEmpty(tracker.dependencies, c)]]

RECURSIVE HasCycleDepth(_, _, _)
\* how deep the calls of has_cycle nest when no call returns early
HasCycleDepth(t, cell, visited) ==
    IF cell \in visited \/ GetOrEmpty(t.dependencies, cell) = {} THEN 1
    ELSE LET below == {HasCycleDepth(t, dep, visited \cup {cell})
                       : dep \in GetOrEmpty(t.dependencies, cell)}
         IN  1 + CHOOSE n \in below : \A k \in below : n >= k

\* C29: has_cycle(c) returns True for every cell c on a dependency cycle and
\* False for every cell from which no cycle can be reached along
\* dependencies, and it returns on every graph: its calls nest no deeper
\* than the number of cells plus one.
C29_HasCycleFindsCycles ==
    last.op = "has_cycle" =>
        /\ OnCycle(TrackerGraph, last.cell) => last.outcome = "True"
        /\ ~ReadsFromCycle(TrackerGraph, last.cell) => last.outcome = "False"
        /\ HasCycleDepth(tracker, last.cell, {}) <= Cardinality(Addrs) + 1

\* has_cycle was asked about a cell on a cycle of two or more cells
C29_Witness ==
    /\ last.op = "has_cycle"
    /\ last.outcome = "True"
    /\ \E p \in CyclesThrough(TrackerGraph, last.cell) : Len(p) >= 2

(***************************************************************************)
(* C30                                                                     *)
(***************************************************************************)
\* the column letters of bijective base 26 that the claim names
NamedColumns ==
    (0 :> <<"A">>) @@ (25 :> <<"Z">>) @@ (26 :> <<"A", "A">>) @@ (701 :> <<"Z", "Z">>)
        @@ (702 :> <<"A", "A", "A">>)

\* C30: col_to_letter maps every column >= 0 to a non-empty text of the
\* letters A..Z that letter_to_col maps back to the column, letter_to_col
\* maps every such text to a column >= 0 that col_to_letter maps back to the
\* text (0 is A, 25 is Z, 26 is AA, 701 is ZZ, 702 is AAA), and
\* parse_address(address_to_string(r, c)) = (r, c).
C30_AddressConversionsAreInverse ==
    /\ last.op = "address_to_string" =>
          /\ last.letter # <<>>
          /\ \A i \in 1..Len(last.letter) : last.letter[i] \in UpperLetters
          /\ last.back = last.col
          /\ last.col \in DOMAIN NamedColumns => last.letter = NamedColumns[last.col]
          /\ last.parsed = <<last.row, last.col>>
    /\ last.op = "letter_to_col" =>
          /\ last.col >= 0
          /\ last.back = last.letter

\* column 702 of a row that prints with two digits was converted to AAA10
C30_Witness ==
    /\ last.op = "address_to_string"
    /\ last.col = 702
    /\ last.row = 9
    /\ last.address = <<"A", "A", "A", "1", "0">>

(***************************************************************************)
(* C31                                                                     *)
(***************************************************************************)
\* C31: the sheet that from_dict builds from the dictionary of to_dict has
\* the name, max_row and max_col of the sheet that was serialized and the
\* same addresses, each with the same raw, value, format and error.
C31_FromDictOfToDictIsTheSheet ==
    last.op = "from_dict" =>
        /\ last.name = SheetName
        /\ sheet.max_row = last.before.max_row
        /\ sheet.max_col = last.before.max_col
        /\ DOMAIN sheet.cells = DOMAIN last.before.cells
        /\ \A p \in DOMAIN sheet.cells :
              /\ sheet.cells[p].raw = last.before.cells[p].raw
              /\ sheet.cells[p].value = last.before.cells[p].value
              /\ sheet.cells[p].format = last.before.cells[p].format
              /\ sheet.cells[p].error = last.before.cells[p].error

\* a sheet with a cell in error and a formatted cell was serialized and loaded
C31_Witness ==
    /\ last.op = "from_dict"
    /\ \E p \in DOMAIN sheet.cells : sheet.cells[p].error # NoneV
    /\ \E p \in DOMAIN sheet.cells : sheet.cells[p].format # EmptyFormat
    /\ Cardinality(DOMAIN sheet.cells) >= 2

(***************************************************************************)
(* C32                                                                     *)
(***************************************************************************)
\* the latest step edited, through set_cell_value, a cell that held a formula
\* to a text that is no formula
FormulaReplacedByText ==
    /\ last.op = "set_cell_value"
    /\ trail # <<>>
    /\ last.cell \in DOMAIN trail[Len(trail)].before.cells
    /\ is_formula(trail[Len(trail)].before.cells[last.cell])
    /\ ~is_formula(sheet.cells[last.cell])

\* C32: after a cell that held a formula is edited to non-formula text through
\* set_cell_value, dependencies[c] is empty, no dependents set holds c and
\* the AST cache has no entry for c.
C32_TextEditClearsDependencies ==
    FormulaReplacedByText =>
        /\ dependency_graph.dependencies[last.cell] = {}
        /\ \A d \in Addrs : last.cell \notin dependency_graph.dependents[d]
        /\ last.cell \notin DOMAIN dependency_graph.ast_cache

(***************************************************************************)
(* Recalculating every formula, and opening a saved sheet                  *)
(***************************************************************************)
\* recalculate_all: every formula cell joins dirty_cells, then recalculate()
recalculate_all(sh, g, dirty, busy) ==
    recalculate(sh, g, dirty \cup {p \in DOMAIN sh.cells : is_formula(sh.cells[p])}, busy)

RecalculateAll ==
    /\ Step
    /\ \E r \in recalculate_all(sheet, dependency_graph, dirty_cells, calculating) :
          /\ sheet' = r.sheet
          /\ dirty_cells' = r.dirty
          /\ last' = Done("recalculate_all", A1, IF r.ran THEN "ran" ELSE "skipped",
                          <<>>, r.order, r.sorted)
    /\ UNCHANGED <<dependency_graph, calculating, pass_order, held, undo_stack, redo_stack, tracker, trail, window>>

\* open_file on the file the sheet was saved to: load_json hands the saved
\* dictionary to from_dict, then a new CalculationEngine runs recalculate_all
OpenFile ==
    /\ Step
    /\ LET loaded == from_dict(to_dict(sheet))
           sh == [cells |-> loaded.cells, max_row |-> loaded.max_row, max_col |-> loaded.max_col]
       IN  \E r \in recalculate_all(sh, NewGraph, {}, FALSE) :
              /\ sheet' = r.sheet
              /\ dirty_cells' = r.dirty
              /\ last' = Done("open_file", A1, IF r.ran THEN "ran" ELSE "skipped",
                              <<>>, r.order, r.sorted)
    /\ dependency_graph' = NewGraph
    /\ calculating' = FALSE
    /\ UNCHANGED <<pass_order, held, undo_stack, redo_stack, tracker, trail, window>>

NextOpen ==
    \/ \E c \in Addrs, text \in PassTexts : Edit(c, text)
    \/ RecalculateAll
    \/ OpenFile

SpecOpen == Init /\ [][NextOpen]_vars

(***************************************************************************)
(* C33                                                                     *)
(***************************************************************************)
\* the cells the raw text of each stored formula reads
SheetReads(sh) ==
    [dependencies |->
        [c \in Addrs |->
            IF c \in DOMAIN sh.cells /\ is_formula(sh.cells[c]) /\ parse_formula(sh.cells[c].raw).ok
            THEN extract_dependencies_from_ast(parse_formula(sh.cells[c].raw).node) \cap Addrs
            ELSE {}]]

\* C33: after recalculate_all() returns, on the engine in use and on the fresh
\* engine open_file builds over a just-loaded sheet, every formula cell that
\* is on no dependency cycle has the value its raw formula evaluates to
\* under the current sheet.
C33_RecalculateAllGivesFormulaValues ==
    last.op \in {"recalculate_all", "open_file"} =>
        \A c \in DOMAIN sheet.cells :
            (is_formula(sheet.cells[c]) /\ ~OnCycle(SheetReads(sheet), c)) =>
                sheet.cells[c].value = ContentValue(sheet, c)

(***************************************************************************)
(* app1: SpreadsheetWindow.on_cell_changed and recalculate_dependents      *)
(* (src/app1/ui.py), over the cells of app1's SpreadsheetModel.  The texts *)
(* entered are an integer or '=' followed by one cell reference.  A call   *)
(* is a frame on window.calls: the body of on_cell_changed runs when the   *)
(* frame is entered, then the loop of recalculate_dependents calls         *)
(* on_cell_changed for one dependent after the other.                      *)
(***************************************************************************)
\* the depth of calls at which the interpreter refuses the frames the body of
\* on_cell_changed needs (sys.getrecursionlimit() in the program)
RecursionLimit == 4

WindowTexts == {T_7, T_A1, T_B1, T_C1}

CellData(raw, value) == [raw |-> raw, value |-> value, bold |-> FALSE, precision |-> 2, error |-> NoneV]

\* app1's parse_cell_ref on a text that matches ^([A-Z]+)(\d+)$
parse_cell_ref(ref) ==
    LET u == Upper(ref)
        i == RefSplit(u)
    IN  <<DigitsToInt(SubSeq(u, i + 1, Len(u))) - 1, letter_to_col(SubSeq(u, 1, i))>>

\* SpreadsheetModel.setData: the raw text of the cell, created when absent
setData(cells, pos, value) ==
    IF pos \in DOMAIN cells THEN [cells EXCEPT ![pos].raw = value]
    ELSE Put(cells, pos, CellData(value, Str(<<>>)))

\* SpreadsheetModel.set_cell_value of app1
model_set_cell_value(cells, pos, value, error) ==
    IF pos \in DOMAIN cells THEN [cells EXCEPT ![pos].value = value, ![pos].error = error]
    ELSE Put(cells, pos, [CellData(<<>>, value) EXCEPT !.error = error])

\* FormulaEvaluator.evaluate on a CellRefNode
evaluate_cell_ref(cells, pos) ==
    IF pos \notin DOMAIN cells THEN Num(0)
    ELSE IF cells[pos].error \notin {NoneV, Str(<<>>)} THEN cells[pos].error
    ELSE IF cells[pos].value = Str(<<>>) THEN Num(0)
    ELSE cells[pos].value

\* the try block of on_cell_changed for '=<reference>', parse_formula having
\* returned: the dependency, the cycle check and the value
formula_changed(cells, t, pos, ref) ==
    LET t1 == tracker_add_dependency(t, pos, ref)
        result == evaluate_cell_ref(cells, ref)
    IN  [tracker |-> t1,
         cells |-> IF has_cycle(t1, pos, {})
                   THEN model_set_cell_value(cells, pos, Str(<<>>), Str(CYCLE))
                   ELSE IF IsErrorValue(result)
                   THEN model_set_cell_value(cells, pos, Str(<<>>), result)
                   ELSE model_set_cell_value(cells, pos, result, NoneV)]

\* on_cell_changed up to the call of recalculate_dependents.  overflow: the
\* stack has no room for the calls of parse_formula, whose RecursionError
\* the except clause turns into '#VALUE!'
on_cell_changed(cells, t, pos, overflow) ==
    LET raw == cells[pos].raw
        t0 == tracker_clear_dependencies(t, pos)
    IN  IF raw # <<>> /\ Head(raw) = "="
        THEN IF overflow \/ ~IsCellRefText(Upper(Tail(raw)))
             THEN [tracker |-> t0,
                   cells |-> model_set_cell_value(cells, pos, Str(<<>>), Str(VALUE))]
             ELSE formula_changed(cells, t0, pos, parse_cell_ref(Tail(raw)))
        ELSE [tracker |-> t0,
              cells |-> IF AllDigits(raw)
                        THEN model_set_cell_value(cells, pos, Num(DigitsToInt(raw)), NoneV)
                        ELSE model_set_cell_value(cells, pos, Str(raw), NoneV)]

Frame(pos) == [cell |-> pos, at |-> "body", seen |-> {}, size |-> 0]

Top == window.calls[Len(window.calls)]

\* on_formula_entered: CellEditCommand.redo stores the text with setData,
\* whose cellChanged signal calls on_cell_changed
FormulaEntered(pos, text) ==
    /\ Step
    /\ window.calls = <<>>
    /\ window' = [cells |-> setData(window.cells, pos, text), calls |-> <<Frame(pos)>>,
                  outcome |-> "running"]
    /\ last' = Done("on_formula_entered", pos, "none", <<>>, <<>>, {})
    /\ UNCHANGED <<sheet, dependency_graph, dirty_cells, calculating, pass_order, undo_stack,
                   redo_stack, tracker, held, trail>>

\* the body of the call on top of the stack; get_dependents hands the loop
\* the set the tracker itself holds
OnCellChanged ==
    /\ window.calls # <<>>
    /\ Top.at = "body"
    /\ LET r == on_cell_changed(window.cells, tracker, Top.cell,
                                Len(window.calls) >= RecursionLimit)
       IN  /\ tracker' = r.tracker
           /\ window' = [window EXCEPT
                  !.cells = r.cells,
                  !.calls[Len(window.calls)] =
                      [Top EXCEPT !.at = "loop",
                                  !.size = Cardinality(tracker_get_dependents(r.tracker, Top.cell))]]
    /\ last' = Done("on_cell_changed", Top.cell, "none", <<>>, <<>>, {})
    /\ UNCHANGED <<sheet, dependency_graph, dirty_cells, calculating, pass_order, undo_stack,
                   redo_stack, held, trail, steps>>

\* for dep_row, dep_col in dependents: self.on_cell_changed(dep_row, dep_col)
RecalculateNext ==
    /\ window.calls # <<>>
    /\ Top.at = "loop"
    /\ Cardinality(tracker_get_dependents(tracker, Top.cell)) = Top.size
    /\ \E dep \in tracker_get_dependents(tracker, Top.cell) \ Top.seen :
          window' = [window EXCEPT
              !.calls = Append([window.calls EXCEPT ![Len(window.calls)].seen = Top.seen \cup {dep}],
                               Frame(dep))]
    /\ last' = Done("recalculate_dependents", Top.cell, "called", <<>>, <<>>, {})
    /\ UNCHANGED <<sheet, dependency_graph, dirty_cells, calculating, pass_order, undo_stack,
                   redo_stack, tracker, held, trail, steps>>

\* the loop is over and the call returns to its caller
RecalculateReturns ==
    /\ window.calls # <<>>
    /\ Top.at = "loop"
    /\ Cardinality(tracker_get_dependents(tracker, Top.cell)) = Top.size
    /\ tracker_get_dependents(tracker, Top.cell) \subseteq Top.seen
    /\ window' = [window EXCEPT
          !.calls = SubSeq(window.calls, 1, Len(window.calls) - 1),
          !.outcome = IF Len(window.calls) = 1 THEN "returned" ELSE "running"]
    /\ last' = Done("recalculate_dependents", Top.cell, "returned", <<>>, <<>>, {})
    /\ UNCHANGED <<sheet, dependency_graph, dirty_cells, calculating, pass_order, undo_stack,
                   redo_stack, tracker, held, trail, steps>>

\* the set changed size while the loop was iterating it: the set iterator
\* raises RuntimeError, which no caller catches
RecalculateRaises ==
    /\ window.calls # <<>>
    /\ Top.at = "loop"
    /\ Cardinality(tracker_get_dependents(tracker, Top.cell)) # Top.size
    /\ window' = [window EXCEPT !.calls = <<>>, !.outcome = "RuntimeError"]
    /\ last' = Done("recalculate_dependents", Top.cell, "raised", <<>>, <<>>, {})
    /\ UNCHANGED <<sheet, dependency_graph, dirty_cells, calculating, pass_order, undo_stack,
                   redo_stack, tracker, held, trail, steps>>

NextWindow ==
    \/ \E pos \in Addrs, text \in WindowTexts : FormulaEntered(pos, text)
    \/ OnCellChanged
    \/ RecalculateNext
    \/ RecalculateReturns
    \/ RecalculateRaises

SpecWindow == Init /\ [][NextWindow]_vars

(***************************************************************************)
(* C34                                                                     *)
(***************************************************************************)
\* the dependencies of the tracker as a graph over the addresses
TrackerReads ==
    [dependencies |-> [c \in Addrs |-> GetOrEmpty(tracker.dependencies, c) \cap Addrs]]

\* C34: on_cell_changed terminates for every sheet, also when the edited
\* formula closes a dependency cycle: the call returns to its caller, no
\* exception ends it, and the cells of a cycle carry '#CYCLE!'.
C34_OnCellChangedReturns ==
    /\ window.outcome \in {"none", "running", "returned"}
    /\ window.outcome = "returned" =>
          \A c \in Addrs : OnCycle(TrackerReads, c) => window.cells[c].error = Str(CYCLE)

(***************************************************************************)
(* find_cycles asked for the cycles of a graph built edge by edge          *)
(***************************************************************************)
FindCycles(start_cell) ==
    /\ Step
    /\ \E cycle \in find_cycles(dependency_graph, start_cell) :
          last' = Done("find_cycles", start_cell, IF cycle = <<>> THEN "[]" ELSE "cycle",
                       cycle, <<>>, {})
    /\ UNCHANGED <<sheet, dependency_graph, dirty_cells, calculating, pass_order, held,
                   undo_stack, redo_stack, tracker, trail, window>>

NextCycles ==
    \/ \E c \in Addrs, d \in Addrs : AddDependency(c, d)
    \/ \E c \in Addrs : ClearDependencies(c)
    \/ \E c \in Addrs : FindCycles(c)

SpecCycles == Init /\ [][NextCycles]_vars

(***************************************************************************)
(* C35                                                                     *)
(***************************************************************************)
RECURSIVE Downstream(_, _, _)
\* the cells reached from the frontier along dependents edges, the frontier
\* included
Downstream(g, frontier, seen) ==
    IF frontier = {} THEN seen
    ELSE LET x == CHOOSE y \in frontier : TRUE
         IN  IF x \in seen THEN Downstream(g, frontier \ {x}, seen)
             ELSE Downstream(g, (frontier \ {x}) \cup g.dependents[x], seen \cup {x})

\* some cell reached from start lies on a cycle of dependents edges
CycleReachable(g, start) ==
    \E c \in Downstream(g, {start}, {}) : c \in Downstream(g, g.dependents[c], {})

\* each element is a dependent of its predecessor, the first of the last
GenuineCycle(g, cycle) ==
    \A i \in 1..Len(cycle) :
        cycle[i] \in g.dependents[cycle[IF i = 1 THEN Len(cycle) ELSE i - 1]]

\* C35: find_cycles(start) returns a non-empty list if and only if some
\* dependency cycle is reachable from start along dependents edges, and the
\* list is then a genuine cycle: each element is a dependent of its
\* predecessor and the first element is a dependent of the last.
C35_FindCyclesFindsGenuineCycles ==
    last.op = "find_cycles" =>
        /\ last.cycle # <<>> <=> CycleReachable(dependency_graph, last.cell)
        /\ GenuineCycle(dependency_graph, last.cycle)

\* find_cycles has returned a cycle of two cells that the start cell is not on
C35_Witness ==
    /\ last.op = "find_cycles"
    /\ Len(last.cycle) = 2
    /\ last.cell \notin SeqRange(last.cycle)

(***************************************************************************)
(* C36                                                                     *)
(***************************************************************************)
\* C36: whenever a command's execute() returns False, as it does when an
\* observer raises during the notification that follows the store mutation,
\* the sheet is exactly as it was before the call.
C36_FailedExecuteLeavesSheet ==
    (/\ Len(trail) >= 1
     /\ trail[Len(trail)].op = "execute"
     /\ ~trail[Len(trail)].returned)
    => sheet = trail[Len(trail)].before

(***************************************************************************)
(* C37                                                                     *)
(***************************************************************************)
\* the address the latest command of the log was built for
EditedAddress == <<trail[Len(trail)].entry.command.row, trail[Len(trail)].entry.command.col>>

\* C37: SetCellCommand.execute() changes only the raw text and the value of
\* the target cell: the format map the cell had before the edit is still its
\* format map afterwards, and no other address changes.
C37_SetCellKeepsFormatAndOthers ==
    Executed("SetCell") =>
        /\ \A p \in (DOMAIN sheet.cells \cup DOMAIN trail[Len(trail)].before.cells) \ {EditedAddress} :
              /\ p \in DOMAIN sheet.cells
              /\ p \in DOMAIN trail[Len(trail)].before.cells
              /\ sheet.cells[p] = trail[Len(trail)].before.cells[p]
        /\ (EditedAddress \in DOMAIN trail[Len(trail)].before.cells /\ EditedAddress \in DOMAIN sheet.cells) =>
              sheet.cells[EditedAddress].format = trail[Len(trail)].before.cells[EditedAddress].format

(***************************************************************************)
(* C38                                                                     *)
(***************************************************************************)
\* C38: in every state reached through set_cell_raw followed by
\* set_cell_formula edits, every formula cell that lies on some dependency
\* cycle carries '#CYCLE!' as value and as error, also when the edited cell
\* closes several cycles at once.
C38_CycleCellsCarryCycle ==
    \A c \in DOMAIN sheet.cells :
        (is_formula(sheet.cells[c]) /\ OnCycle(dependency_graph, c)) => CarriesCycle(sheet, c)

(***************************************************************************)
(* C39                                                                     *)
(***************************************************************************)
StructuralTypes == {"InsertRow", "DeleteRow", "InsertColumn", "DeleteColumn"}

\* the latest operation ran a structural command or undid one
StructureChanged ==
    /\ Len(trail) >= 1
    /\ trail[Len(trail)].op \in {"execute", "undo"}
    /\ trail[Len(trail)].returned
    /\ trail[Len(trail)].entry.command.type \in StructuralTypes

\* C39: after insert_row, delete_row, insert_column or delete_column, run
\* through the structural commands or through their undo, the engine's graph
\* describes the sheet address by address: every stored formula cell has an AST
\* cache entry and the dependencies parsed from its own raw text, and every
\* address with a non-formula cell or with no cell has neither.
C39_GraphFollowsStructure ==
    StructureChanged =>
        /\ \A p \in DOMAIN sheet.cells :
              is_formula(sheet.cells[p]) =>
                  /\ p \in DOMAIN dependency_graph.ast_cache
                  /\ parse_formula(sheet.cells[p].raw).ok
                  /\ dependency_graph.ast_cache[p] = parse_formula(sheet.cells[p].raw).node
                  /\ dependency_graph.dependencies[p]
                        = extract_dependencies_from_ast(parse_formula(sheet.cells[p].raw).node)
        /\ \A p \in Addrs :
              (p \notin DOMAIN sheet.cells \/ ~is_formula(sheet.cells[p])) =>
                  /\ p \notin DOMAIN dependency_graph.ast_cache
                  /\ dependency_graph.dependencies[p] = {}

(***************************************************************************)
(* A macro executed and then undone.  The children are constructed before  *)
(* the macro runs, as MacroCommand.__init__ takes a list of commands.      *)
(***************************************************************************)
RECURSIVE executing(_, _)
\* MacroCommand.execute with no failing child: the worlds in which the
\* children's execute() are called, first child first
executing(w, commands) ==
    IF commands = <<>> THEN <<>>
    ELSE <<w>> \o executing(execute(w, Head(commands)), Tail(commands))

RECURSIVE undoing(_, _)
\* MacroCommand.undo: for command in reversed(self.commands): command.undo().
\* The i-th world is the one the i-th child's undo() leaves
undoing(w, commands) ==
    IF commands = <<>> THEN <<>>
    ELSE Append(undoing(undo(w, commands[Len(commands)]),
                        SubSeq(commands, 1, Len(commands) - 1)),
                undo(w, commands[Len(commands)]))

\* MacroCommand.undo: the world after the first child's undo()
MacroCommand_undo(w, commands) ==
    IF commands = <<>> THEN w ELSE undoing(w, commands)[1]

UndoMacros ==
    {<<SetCellRequest(A1, T_7), SetCellRequest(B1, T_7)>>,
     <<SetCellRequest(A1, T_7), SetCellRequest(A1, T_B1)>>,
     <<SetCellRequest(A1, T_7), LineRequest("DeleteRow", 0)>>}

\* macro.undo() on the macro that was just executed.  The commands of
\* UndoMacros neither read nor write a shared format map, so the sheets of
\* the replayed execute() calls are the ones the macro went through
MacroUndo ==
    /\ Step
    /\ Len(trail) >= 1
    /\ trail[Len(trail)].op = "macro"
    /\ trail[Len(trail)].returned
    /\ LET commands == trail[Len(trail)].entry.command.commands
           now == World(sheet, held, undo_stack, redo_stack)
           result == MacroCommand_undo(now, commands)
       IN  /\ sheet' = result.sheet
           /\ held' = [p \in {q \in DOMAIN result.held : result.held[q][1] > 0} |-> result.held[p]]
           /\ last' = [op |-> "macro_undo",
                       before |-> executing(World(trail[Len(trail)].before, held, undo_stack,
                                                  redo_stack), commands),
                       after |-> undoing(now, commands)]
           /\ trail' = Recorded("macro_undo", trail[Len(trail)].entry, TRUE, sheet)
    /\ UNCHANGED <<dependency_graph, dirty_cells, calculating, pass_order, undo_stack, redo_stack,
                   tracker, window>>

NextMacro ==
    \/ \E request \in StorageRequests : LogExecute(request, TRUE)
    \/ LogUndo(TRUE)
    \/ \E requests \in UndoMacros : MacroExecute(requests, 0)
    \/ MacroUndo

SpecMacro == Init /\ [][NextMacro]_vars

(***************************************************************************)
(* C40                                                                     *)
(***************************************************************************)
\* C40: a command's undo() returns the sheet to the state that held
\* immediately before that command's own execute(), also when the command was
\* constructed earlier than it was executed, as a later child of a
\* MacroCommand whose earlier children change the cells or the row it captured.
C40_ChildUndoRestoresStateBeforeItsExecute ==
    last.op = "macro_undo" =>
        \A i \in 1..Len(last.after) : last.after[i].sheet.cells = last.before[i].sheet.cells

====
